--------------------------- MODULE Requests_proofs ---------------------------
(***************************************************************************)
(* What Inventory and Requests promise, for every set of hosts, VMs, run   *)
(* states and timestamps.                                                  *)
(*                                                                         *)
(*   Good   the inventory, of module InventoryOps_proofs: inductive as it  *)
(*          stands, under Inventory and so under Requests, whose steps are *)
(*          steps of Inventory or leave the inventory alone;               *)
(*   QInv   the request: while a handler has it, it has been forwarded     *)
(*          just when it carries X-VirtX-Loop, and has not been carried    *)
(*          out; and what the client was told agrees with what was done.   *)
(***************************************************************************)
EXTENDS Requests, InventoryOps_proofs

-----------------------------------------------------------------------------
(* The inventory                                                            *)

\* Every step of the component, and stuttering, keeps the inventory Good.
LEMMA NextGood == Good(inv) /\ [Next]_inv => Good(inv)'
<1> SUFFICES ASSUME Good(inv), [Next]_inv
             PROVE  Good(inv')
  BY DEF Good
<1>1. CASE \E hi \in HostInfo : Update_host(hi)
  BY <1>1, UpdateHostGood DEF Update_host
<1>2. CASE \E h \in Host, c \in Cstate : Set_host_state(h, c)
  BY <1>2, SetHostStateGood DEF Set_host_state
<1>3. CASE \E e \in VmEvent : Update_vm_state(e)
  BY <1>3, UpdateVmStateGood DEF Update_vm_state
<1>4. CASE \E vi \in VmInfo : Update_vm(vi)
  BY <1>4, UpdateVmGood DEF Update_vm
<1>5. CASE Restart
  BY <1>5, InitGood DEF Restart
<1>6. CASE UNCHANGED inv
  BY <1>6
<1> QED
  BY <1>1, <1>2, <1>3, <1>4, <1>5, <1>6 DEF Next

\* Whatever calls reach the inventory, in whatever order, it stays well formed.
THEOREM TypeCorrect == Spec => []TypeOK
<1>1. Init => Good(inv)
  BY InitGood DEF Init
<1>2. Good(inv) => TypeOK
  BY DEF Good, TypeOK
<1> QED
  BY <1>1, <1>2, NextGood, PTL DEF Spec

\* Whatever calls reach the inventory, the VM lists of the hosts agree with the
\* Host fields of the VMs: no VM is listed under two hosts, none is listed that
\* is not known.
THEOREM HostVmsCorrect == Spec => []HostVmsConsistent
<1>1. Init => Good(inv)
  BY InitGood DEF Init
<1>2. Good(inv) => HostVmsConsistent
  BY DEF Good, HostVmsConsistent
<1> QED
  BY <1>1, <1>2, NextGood, PTL DEF Spec

\* The obsolescence checks of update_host, update_vm and update_vm_state, for
\* every order of events: an entry that stays never goes back in time.
THEOREM TsCorrect == Spec => TsMonotone
<1> DEFINE Forward == inv' = init \/ NoOlder(inv, inv')
<1>1. Init => Good(inv)
  BY InitGood DEF Init
<1>2. Good(inv) /\ [Next]_inv => [Forward]_inv
  <2> SUFFICES ASSUME Good(inv), Next
               PROVE  Forward
    OBVIOUS
  <2> QED
    BY OperationsNoOlder
    DEF Next, Update_host, Set_host_state, Update_vm_state, Update_vm, Restart
<1>3. [Forward]_inv => [\/ inv' = init
                       \/ /\ \A h \in DOMAIN inv.hosts : h \in DOMAIN inv.hosts'
                               /\ inv.hosts[h].Info.Ts <= inv.hosts'[h].Info.Ts
                          /\ \A u \in DOMAIN inv.vms \cap DOMAIN inv.vms' :
                               inv.vms[u].Ts <= inv.vms'[u].Ts]_inv
  BY DEF NoOlder
<1> QED
  BY <1>1, <1>2, <1>3, NextGood, PTL DEF Spec, TsMonotone

-----------------------------------------------------------------------------
(* The requests use the inventory as module Inventory says                  *)

\* A step of Requests is a step of Inventory, or leaves the inventory alone.
LEMMA ReqNextInventory == [ReqNext]_allvars => [Next]_inv
<1> SUFFICES ASSUME [ReqNext]_allvars PROVE [Next]_inv OBVIOUS
<1>1. CASE UNCHANGED inv BY <1>1
<1>2. CASE Gossip BY <1>2 DEF Gossip, Next
<1>3. CASE Down BY <1>3 DEF Down, Next
<1> QED
  BY <1>1, <1>2, <1>3
  DEF ReqNext, allvars, Ask, GiveUp, Handle, Decode_request_body, RefuseEarly, Find,
      http_proxy_request, Serve, ProxyTimeout, Lost

\* A virtxd that serves requests has an inventory of module Inventory: its handlers read
\* it and no more, and what is proved of Inventory holds while they run.
THEOREM RequestsImplementInventory == ReqSpec => Spec
BY ReqNextInventory, PTL DEF ReqSpec, ReqInit, Spec

\* What vm_list shows for a host has every VM that delete_ghosts finds under it, and up
\* to a time every one last reported by then, whatever gossip the inventory has met.
THEOREM ListsCorrect == ReqSpec => []ListsShowHostVms
<1>1. Init => Good(inv) BY InitGood DEF Init
<1>2. Good(inv) => ListsShowHostVms
  BY DEF Good, HostVmsAgree, ListsShowHostVms, Search_hosts, Search_vms
<1>3. Spec => []Good(inv) BY <1>1, NextGood, PTL DEF Spec
<1> QED BY <1>2, <1>3, RequestsImplementInventory, PTL

-----------------------------------------------------------------------------
(* The request                                                              *)

\* What the handler of a request does, by its declaration.
HandlerType == [needs : BOOLEAN, route : Route, gives : BOOLEAN]

\* A command reaches the handler of its name, which gives a result where the command
\* expects one.
LEMMA CommandsServed ==
  ASSUME NEW c \in Command
  PROVE  /\ servemux(c.ask) \in HandlerType
         /\ c.result \in BOOLEAN
         /\ c.result => servemux(c.ask).gives = TRUE
<1> DEFINE Served(h) == /\ h \in HandlerType
                        /\ c.result \in BOOLEAN
                        /\ c.result => h.gives = TRUE
<1>1. CASE c \in {host_list_req, host_get_req, vm_create_req, vm_list_req}
  <2>1. CASE c = host_list_req
    <3>1. servemux(c.ask) = host_list BY <2>1 DEF servemux, host_list_req, VirtxClient
    <3>2. Served(host_list) BY <2>1 DEF host_list_req, host_list, VirtxClient, Handler, HandlerType, Route
    <3> QED BY <3>1, <3>2
  <2>2. CASE c = host_get_req
    <3>1. servemux(c.ask) = host_get BY <2>2 DEF servemux, host_get_req, VirtxClient
    <3>2. Served(host_get) BY <2>2 DEF host_get_req, host_get, VirtxClient, Handler, HandlerType, Route
    <3> QED BY <3>1, <3>2
  <2>3. CASE c = vm_create_req
    <3>1. servemux(c.ask) = vm_create BY <2>3 DEF servemux, vm_create_req, VirtxClient
    <3>2. Served(vm_create) BY <2>3 DEF vm_create_req, vm_create, VirtxClient, Handler, HandlerType, Route
    <3> QED BY <3>1, <3>2
  <2>4. CASE c = vm_list_req
    <3>1. servemux(c.ask) = vm_list BY <2>4 DEF servemux, vm_list_req, VirtxClient
    <3>2. Served(vm_list) BY <2>4 DEF vm_list_req, vm_list, VirtxClient, Handler, HandlerType, Route
    <3> QED BY <3>1, <3>2
  <2> QED BY <1>1, <2>1, <2>2, <2>3, <2>4
<1>2. CASE c \in {vm_update_req, vm_get_req, vm_delete_req, vm_runstate_get_req}
  <2>1. CASE c = vm_update_req
    <3>1. servemux(c.ask) = vm_update BY <2>1 DEF servemux, vm_update_req, VirtxClient
    <3>2. Served(vm_update) BY <2>1 DEF vm_update_req, vm_update, VirtxClient, Handler, HandlerType, Route
    <3> QED BY <3>1, <3>2
  <2>2. CASE c = vm_get_req
    <3>1. servemux(c.ask) = vm_get BY <2>2 DEF servemux, vm_get_req, VirtxClient
    <3>2. Served(vm_get) BY <2>2 DEF vm_get_req, vm_get, VirtxClient, Handler, HandlerType, Route
    <3> QED BY <3>1, <3>2
  <2>3. CASE c = vm_delete_req
    <3>1. servemux(c.ask) = vm_delete BY <2>3 DEF servemux, vm_delete_req, VirtxClient
    <3>2. Served(vm_delete) BY <2>3 DEF vm_delete_req, vm_delete, VirtxClient, Handler, HandlerType, Route
    <3> QED BY <3>1, <3>2
  <2>4. CASE c = vm_runstate_get_req
    <3>1. servemux(c.ask) = vm_runstate_get BY <2>4 DEF servemux, vm_runstate_get_req, VirtxClient
    <3>2. Served(vm_runstate_get) BY <2>4 DEF vm_runstate_get_req, vm_runstate_get, VirtxClient, Handler, HandlerType, Route
    <3> QED BY <3>1, <3>2
  <2> QED BY <1>2, <2>1, <2>2, <2>3, <2>4
<1>3. CASE c \in {vm_boot_req, vm_shutdown_req, vm_pause_req, vm_resume_req}
  <2>1. CASE c = vm_boot_req
    <3>1. servemux(c.ask) = vm_boot BY <2>1 DEF servemux, vm_boot_req, VirtxClient
    <3>2. Served(vm_boot) BY <2>1 DEF vm_boot_req, vm_boot, VirtxClient, Handler, HandlerType, Route
    <3> QED BY <3>1, <3>2
  <2>2. CASE c = vm_shutdown_req
    <3>1. servemux(c.ask) = vm_shutdown BY <2>2 DEF servemux, vm_shutdown_req, VirtxClient
    <3>2. Served(vm_shutdown) BY <2>2 DEF vm_shutdown_req, vm_shutdown, VirtxClient, Handler, HandlerType, Route
    <3> QED BY <3>1, <3>2
  <2>3. CASE c = vm_pause_req
    <3>1. servemux(c.ask) = vm_pause BY <2>3 DEF servemux, vm_pause_req, VirtxClient
    <3>2. Served(vm_pause) BY <2>3 DEF vm_pause_req, vm_pause, VirtxClient, Handler, HandlerType, Route
    <3> QED BY <3>1, <3>2
  <2>4. CASE c = vm_resume_req
    <3>1. servemux(c.ask) = vm_resume BY <2>4 DEF servemux, vm_resume_req, VirtxClient
    <3>2. Served(vm_resume) BY <2>4 DEF vm_resume_req, vm_resume, VirtxClient, Handler, HandlerType, Route
    <3> QED BY <3>1, <3>2
  <2> QED BY <1>3, <2>1, <2>2, <2>3, <2>4
<1>4. CASE c \in {vm_migrate_req, vm_migrate_get_req, vm_migrate_abort_req, vm_register_req}
  <2>1. CASE c = vm_migrate_req
    <3>1. servemux(c.ask) = vm_migrate BY <2>1 DEF servemux, vm_migrate_req, VirtxClient
    <3>2. Served(vm_migrate) BY <2>1 DEF vm_migrate_req, vm_migrate, VirtxClient, Handler, HandlerType, Route
    <3> QED BY <3>1, <3>2
  <2>2. CASE c = vm_migrate_get_req
    <3>1. servemux(c.ask) = vm_migrate_get BY <2>2 DEF servemux, vm_migrate_get_req, VirtxClient
    <3>2. Served(vm_migrate_get) BY <2>2 DEF vm_migrate_get_req, vm_migrate_get, VirtxClient, Handler, HandlerType, Route
    <3> QED BY <3>1, <3>2
  <2>3. CASE c = vm_migrate_abort_req
    <3>1. servemux(c.ask) = vm_migrate_abort BY <2>3 DEF servemux, vm_migrate_abort_req, VirtxClient
    <3>2. Served(vm_migrate_abort) BY <2>3 DEF vm_migrate_abort_req, vm_migrate_abort, VirtxClient, Handler, HandlerType, Route
    <3> QED BY <3>1, <3>2
  <2>4. CASE c = vm_register_req
    <3>1. servemux(c.ask) = vm_register BY <2>4 DEF servemux, vm_register_req, VirtxClient
    <3>2. Served(vm_register) BY <2>4 DEF vm_register_req, vm_register, VirtxClient, Handler, HandlerType, Route
    <3> QED BY <3>1, <3>2
  <2> QED BY <1>4, <2>1, <2>2, <2>3, <2>4
<1> QED BY <1>1, <1>2, <1>3, <1>4 DEF Command

\* The invariant of the request.  While a handler has the request, it has been forwarded
\* just when it carries X-VirtX-Loop, it has not been carried out, and its handler gives
\* the result that the client expects.
Handled ==
  q.pc # "over" =>
    /\ q.loop = TRUE <=> q.hops = 1
    /\ q.ran = 0
    /\ q.expects = TRUE => q.h.gives = TRUE

QInv ==
  /\ q \in Request /\ q.hops <= 1 /\ q.ran <= 1
  /\ Handled
  /\ q.pc = "proxy" => q.target \in Host
  /\ AnswersAreTrue

\* What Over leaves of a request.
LEMMA OverKeeps ==
  ASSUME NEW r \in Request
  PROVE  /\ Over(r) \in Request
         /\ Over(r).pc = "over"
         /\ Over(r).hops = r.hops /\ Over(r).ran = r.ran
         /\ Over(r).status = r.status /\ Over(r).has = r.has /\ Over(r).expects = r.expects
BY MeAssumption DEF Request, Over, Handler, Route

\* A request that no handler has any more satisfies QInv if the answer agrees with what
\* was done.
LEMMA OverQInv ==
  ASSUME NEW r \in Request, q' = Over(r), r.hops <= 1, r.ran <= 1,
         r.status = "2xx" => r.ran = 1,
         r.status \in Refused => r.ran = 0,
         r.expects = TRUE /\ r.status \notin {"none", "error"} => r.has = TRUE
  PROVE  QInv'
BY OverKeeps DEF QInv, Handled, AnswersAreTrue

\* The answer of a handler that has the request.
LEMMA AnswerQInv ==
  ASSUME QInv, q.pc # "over",
         NEW status \in Status \ {"none"}, NEW has \in BOOLEAN, NEW ran \in {0, 1},
         Answer(status, has, ran),
         status = "2xx" => ran = 1, status \in Refused => ran = 0,
         q.expects = TRUE => has = TRUE
  PROVE  QInv'
<1> DEFINE r == [q EXCEPT !.ran = @ + ran,
                          !.status = IF @ = "none" THEN status ELSE @,
                          !.has = IF q.status = "none" THEN has ELSE @]
<1>1. q' = Over(r) BY DEF Answer
<1>2. q \in Request /\ q.ran = 0 /\ q.hops <= 1 BY DEF QInv, Handled
<1>3. /\ r \in Request /\ r.ran = ran /\ r.hops = q.hops /\ r.expects = q.expects
      /\ r.status = IF q.status = "none" THEN status ELSE q.status
      /\ r.has = IF q.status = "none" THEN has ELSE q.has
  <2>1. q.ran + ran \in 0..2 /\ q.ran + ran = ran BY <1>2
  <2>2. q.status \in Status /\ q.has \in BOOLEAN BY <1>2 DEF Request
  <2>3. ASSUME NEW n \in 0..2, NEW st \in Status, NEW b \in BOOLEAN
        PROVE  [q EXCEPT !.ran = n, !.status = st, !.has = b] \in Request
    BY <1>2 DEF Request
  <2>4. r = [q EXCEPT !.ran = q.ran + ran,
                      !.status = IF q.status = "none" THEN status ELSE q.status,
                      !.has = IF q.status = "none" THEN has ELSE q.has]
    BY <1>2 DEF Request
  <2>5. r \in Request BY <2>1, <2>2, <2>3, <2>4
  <2> QED BY <1>2, <2>1, <2>5 DEF Request
<1>4. /\ q.status # "2xx" /\ q.status \notin Refused
      /\ q.expects = TRUE /\ q.status \notin {"none", "error"} => q.has = TRUE
  BY <1>2 DEF QInv, AnswersAreTrue
<1> HIDE DEF r
<1>5. r.hops <= 1 /\ r.ran <= 1 BY <1>2, <1>3
<1>6. r.status = "2xx" => r.ran = 1 BY <1>3, <1>4
<1>7. r.status \in Refused => r.ran = 0 BY <1>3, <1>4
<1>8. r.expects = TRUE /\ r.status \notin {"none", "error"} => r.has = TRUE
  BY <1>3, <1>4
<1> QED BY <1>1, <1>3, <1>5, <1>6, <1>7, <1>8, OverQInv

\* An error is such an answer, and nothing has been carried out.
LEMMA ErrorQInv ==
  ASSUME QInv, q.pc # "over", NEW status \in Refused, Error(status)
  PROVE  QInv'
<1>1. status \in Status \ {"none"} /\ status # "2xx" BY DEF Refused, Status
<1> QED BY <1>1, AnswerQInv DEF Error

\* A handler that goes on with the request.
LEMMA GoQInv ==
  ASSUME QInv, q.pc # "over", NEW pc \in {"find", "proxy", "serve"},
         NEW x \in Host \cup {NoHost}, Go(pc, x), pc = "proxy" => x \in Host
  PROVE  QInv'
<1>1. q \in Request BY DEF QInv
<1>2. /\ q' \in Request /\ q'.pc = pc /\ q'.target = x
      /\ q'.hops = q.hops /\ q'.ran = q.ran /\ q'.loop = q.loop /\ q'.h = q.h
      /\ q'.expects = q.expects /\ q'.status = q.status /\ q'.has = q.has
  BY <1>1 DEF Go, Request
<1> QED BY <1>2 DEF QInv, Handled, AnswersAreTrue

\* Finding the host keeps QInv, whatever the inventory shows.
LEMMA FindQInv == ASSUME QInv, Good(inv), Find PROVE QInv'
<1>0. q.pc # "over" /\ q \in Request BY DEF Find, QInv
<1>1. ASSUME NEW x \in Host \cup {NoHost}, Dispatch(x) PROVE QInv'
  BY <1>0, <1>1, GoQInv DEF Dispatch, http_host_is_remote
<1>2. CASE Go("serve", NoHost) BY <1>0, <1>2, GoQInv
<1>3. CASE Error("404") BY <1>0, <1>3, ErrorQInv DEF Refused
<1>4. q.opt \in Host \cup {NoHost} BY <1>0 DEF Request
<1>5. \A x \in Get_vminfo(q.at, q.vm) : x = "unknown" \/ x \in Host \cup {NoHost}
  <2>1. \A v \in DOMAIN inv.vms : inv.vms[v] \in VmInfo BY MapTypes DEF Good, Map
  <2>2. \A v \in DOMAIN inv.vms : inv.vms[v].Host \in Host BY <2>1 DEF VmInfo, VmEvent
  <2> QED BY <2>2 DEF Get_vminfo
<1> QED BY <1>1, <1>2, <1>3, <1>4, <1>5 DEF Find

\* Forwarding: a request that carries the header goes no further.
LEMMA ProxyQInv == ASSUME QInv, http_proxy_request PROVE QInv'
<1>0. q.pc = "proxy" /\ q \in Request /\ q.target \in Host BY DEF http_proxy_request, QInv
<1>1. CASE Error("503") \/ Error("508") BY <1>0, <1>1, ErrorQInv DEF Refused
<1>2. CASE q.loop # TRUE /\ Proxy_request
  <2>1. q.hops = 0 /\ q.hops + 1 = 1
    <3>1. q.hops \in 0..2 BY <1>0 DEF Request
    <3>2. q.hops <= 1 /\ q.hops # 1 BY <1>0, <1>2 DEF QInv, Handled
    <3> QED BY <3>1, <3>2
  <2>2. q' = [q EXCEPT !.at = q.target, !.pc = "decode", !.loop = TRUE, !.hops = @ + 1,
                       !.body = IF q.h.needs THEN @ ELSE "none"]
    BY <1>0, <1>2 DEF Proxy_request, Request
  <2>3. /\ q' \in Request /\ q'.pc = "decode" /\ q'.loop = TRUE /\ q'.hops = 1
        /\ q'.ran = q.ran /\ q'.h = q.h
        /\ q'.expects = q.expects /\ q'.status = q.status /\ q'.has = q.has
    <3>1. (IF q.h.needs THEN q.body ELSE "none") \in {"good", "odd", "bad", "none"}
      BY <1>0 DEF Request
    <3>2. ASSUME NEW b \in {"good", "odd", "bad", "none"}, NEW n \in 0..2
          PROVE  [q EXCEPT !.at = q.target, !.pc = "decode", !.loop = TRUE, !.hops = n,
                           !.body = b] \in Request
      BY <1>0 DEF Request
    <3>3. q' = [q EXCEPT !.at = q.target, !.pc = "decode", !.loop = TRUE, !.hops = q.hops + 1,
                         !.body = IF q.h.needs THEN q.body ELSE "none"]
      BY <1>0, <2>2 DEF Request
    <3>4. q.hops + 1 \in 0..2 BY <2>1
    <3>5. q' \in Request BY <3>1, <3>2, <3>3, <3>4
    <3> QED BY <1>0, <2>1, <2>2, <3>5 DEF Request
  <2>4. q.ran = 0 /\ (q.expects = TRUE => q.h.gives = TRUE) BY <1>0 DEF QInv, Handled
  <2>5. AnswersAreTrue' BY <1>0, <2>3 DEF QInv, AnswersAreTrue
  <2> QED BY <2>3, <2>4, <2>5 DEF QInv, Handled
<1>3. CASE q.loop = TRUE /\ Proxy_request BY <1>1, <1>3 DEF Proxy_request
<1> QED BY <1>1, <1>2, <1>3 DEF http_proxy_request

\* Serving carries the request out once at most, and it is over.
LEMMA ServeQInv == ASSUME QInv, Serve PROVE QInv'
<1>0. q.pc # "over" /\ q \in Request /\ q.h.gives \in BOOLEAN BY DEF Serve, QInv, Request
<1>1. CASE Answer("2xx", q.h.gives, 1)
  <2>1. q.expects = TRUE => q.h.gives = TRUE BY <1>0 DEF QInv, Handled
  <2>2. "2xx" \in Status \ {"none"} /\ "2xx" \notin Refused BY DEF Status, Refused
  <2> QED BY <1>0, <1>1, <2>1, <2>2, AnswerQInv
<1>2. ASSUME NEW n \in {0, 1}, Answer("4xx/5xx", TRUE, n) PROVE QInv'
  <2>1. "4xx/5xx" \in Status \ {"none"} /\ "4xx/5xx" \notin Refused BY DEF Status, Refused
  <2> QED BY <1>0, <1>2, <2>1, AnswerQInv
<1>3. CASE Error("422") BY <1>0, <1>3, ErrorQInv DEF Refused
<1> QED BY <1>1, <1>2, <1>3 DEF Serve

\* The client, or the virtxd that forwards, waits no longer.
LEMMA TimeoutQInv ==
  ASSUME QInv, q.status = "none", NEW s \in {"error", "502"}, NEW b \in BOOLEAN,
         q' = [q EXCEPT !.status = s, !.has = b], s = "502" => b = TRUE
  PROVE  QInv'
<1>1. q \in Request BY DEF QInv
<1>2. /\ q' \in Request /\ q'.status = s /\ q'.has = b
      /\ q'.pc = q.pc /\ q'.target = q.target
      /\ q'.hops = q.hops /\ q'.ran = q.ran /\ q'.loop = q.loop /\ q'.h = q.h
      /\ q'.expects = q.expects
  BY <1>1 DEF Request, Status
<1>3. s # "2xx" /\ s \notin Refused BY DEF Refused
<1> QED BY <1>2, <1>3 DEF QInv, Handled, AnswersAreTrue

\* Losing the request, here or where it was sent.
LEMMA LostQInv == ASSUME QInv, Lost \/ Down PROVE QInv'
<1> DEFINE r == [q EXCEPT !.status = IF @ = "none" THEN "error" ELSE @]
<1>1. q \in Request BY DEF QInv
<1>2. /\ r \in Request /\ r.hops = q.hops /\ r.ran = q.ran /\ r.expects = q.expects
      /\ r.has = q.has /\ r.pc = q.pc /\ r.loop = q.loop /\ r.h = q.h /\ r.target = q.target
      /\ r.status = IF q.status = "none" THEN "error" ELSE q.status
  BY <1>1 DEF Request, Status
<1>3. /\ "error" # "2xx" /\ "error" \notin Refused
      /\ q.status = "2xx" => q.ran = 1
      /\ q.status \in Refused => q.ran = 0 /\ q.pc = "over"
      /\ q.expects = TRUE /\ q.status \notin {"none", "error"} => q.has = TRUE
      /\ q.hops <= 1 /\ q.ran <= 1
  BY <1>1 DEF QInv, AnswersAreTrue, Refused
<1> HIDE DEF r
<1>4. CASE q' = Over(q) BY <1>1, <1>3, <1>4, OverQInv
<1>5. CASE q' = Over(r) BY <1>2, <1>3, <1>5, OverQInv
<1>6. CASE q' = r BY <1>2, <1>3, <1>6 DEF QInv, Handled, AnswersAreTrue
<1> QED BY <1>4, <1>5, <1>6 DEF Lost, Down, r

\* A new request.
LEMMA AskQInv ==
  ASSUME QInv, NEW c \in Command, NEW u \in Vm, NEW o \in Host \cup {NoHost},
         NEW b \in {"good", "odd", "bad", "none"}, Ask(c, u, o, b)
  PROVE  QInv'
<1>1. q' = [h |-> servemux(c.ask), expects |-> c.result, vm |-> u, opt |-> o,
            body |-> b, loop |-> FALSE, at |-> Me, pc |-> "decode", target |-> NoHost,
            hops |-> 0, ran |-> 0, status |-> "none", has |-> FALSE]
  BY DEF Ask
<1>2. q' \in Request
  <2>1. servemux(c.ask) \in [needs : BOOLEAN, route : Route, gives : BOOLEAN]
    BY CommandsServed DEF HandlerType
  <2>2. c.result \in BOOLEAN /\ "none" \in Status BY CommandsServed DEF Status
  <2> QED BY <1>1, <2>1, <2>2, MeAssumption DEF Request
<1>3. /\ q'.pc = "decode" /\ q'.loop = FALSE /\ q'.hops = 0 /\ q'.ran = 0
      /\ q'.status = "none" /\ q'.expects = c.result /\ q'.h = servemux(c.ask)
  BY <1>1
<1>4. "none" \notin Refused BY DEF Refused
<1>5. Handled'
  <2>1. c.result \in BOOLEAN /\ (c.result = TRUE => servemux(c.ask).gives = TRUE)
    BY CommandsServed
  <2> QED BY <1>3, <2>1 DEF Handled
<1>6. AnswersAreTrue' BY <1>3, <1>4 DEF AnswersAreTrue
<1> QED BY <1>2, <1>3, <1>5, <1>6 DEF QInv

\* QInv is inductive, with Good.
LEMMA NextQInv == ASSUME QInv, Good(inv), [ReqNext]_allvars PROVE QInv'
<1>1. CASE UNCHANGED q BY <1>1 DEF QInv, Handled, AnswersAreTrue
<1>2. CASE Decode_request_body
  <2>1. q.pc # "over" BY <1>2 DEF Decode_request_body
  <2>2. CASE Error("400") BY <2>1, <2>2, ErrorQInv DEF Refused
  <2>3. CASE Go("find", NoHost) BY <2>1, <2>3, GoQInv
  <2> QED BY <1>2, <2>2, <2>3 DEF Decode_request_body
<1>3. CASE RefuseEarly BY <1>3, ErrorQInv DEF RefuseEarly, Refused
<1>4. CASE GiveUp
  <2>1. q \in Request BY DEF QInv
  <2>2. q' = [q EXCEPT !.status = "error", !.has = q.has] /\ q.has \in BOOLEAN
    BY <1>4, <2>1 DEF GiveUp, Request
  <2> QED BY <1>4, <2>2, TimeoutQInv DEF GiveUp
<1>5. CASE ProxyTimeout BY <1>5, TimeoutQInv DEF ProxyTimeout
<1> QED
  BY <1>1, <1>2, <1>3, <1>4, <1>5, FindQInv, ProxyQInv, ServeQInv, LostQInv, AskQInv
  DEF ReqNext, Handle, Gossip, allvars

\* QInv and Good hold throughout.
LEMMA ReqInvariant == ReqSpec => [](QInv /\ Good(inv))
<1>1. ReqInit => QInv /\ Good(inv)
  <2> SUFFICES ASSUME ReqInit PROVE QInv /\ Good(inv) OBVIOUS
  <2>1. Good(inv) BY InitGood DEF ReqInit, Init
  <2>2. (CHOOSE u \in Vm : TRUE) \in Vm BY VmAssumption
  <2>3. q \in Request
    BY <2>2, MeAssumption DEF ReqInit, Request, Handler, Route, Status
  <2>4. q.pc = "over" /\ q.hops = 0 /\ q.ran = 0 /\ q.status = "error" BY DEF ReqInit
  <2>5. "error" \notin Refused BY DEF Refused
  <2> QED BY <2>1, <2>3, <2>4, <2>5 DEF QInv, Handled, AnswersAreTrue
<1>2. QInv /\ Good(inv) /\ [ReqNext]_allvars => (QInv /\ Good(inv))'
  BY NextQInv, NextGood, ReqNextInventory
<1> QED BY <1>1, <1>2, PTL DEF ReqSpec

\* A request is forwarded once at most, whatever the other virtxd believe: the header
\* that Proxy_request sets and looks at is enough.
THEOREM ForwardedCorrect == ReqSpec => []ForwardedOnce
<1>1. QInv => ForwardedOnce BY DEF QInv, ForwardedOnce
<1> QED BY <1>1, ReqInvariant, PTL

\* An answer says the truth: done once, or not done and over; and it has the body that
\* `virtx' decodes.  So for any number of hosts, and whatever their inventories show.
THEOREM AnswersCorrect == ReqSpec => []AnswersAreTrue
<1>1. QInv => AnswersAreTrue BY DEF QInv
<1> QED BY <1>1, ReqInvariant, PTL
=============================================================================
