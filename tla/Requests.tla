------------------------------ MODULE Requests ------------------------------
(***************************************************************************)
(* A request to the REST API of one virtxd, from the command `virtx' to    *)
(* the host that serves it.  pkg/virtx finds that host in the inventory,   *)
(* which changes under it, and pkg/httpx forwards the request there once,  *)
(* marked with the header X-VirtX-Loop.                                    *)
(*                                                                         *)
(* The virtxd of host Me has the inventory `inv' of module Inventory.  The *)
(* virtxd of any other host runs the same handlers on an inventory of its  *)
(* own, of which nothing is assumed: it may show whatever it likes.        *)
(*                                                                         *)
(* What a handler does once it has found the VM on its own host is in the  *)
(* modules Storage, Runstate and Migration; here it is done, it fails on   *)
(* the way, or it is refused before anything is done.                      *)
(***************************************************************************)
EXTENDS Inventory

CONSTANT Me    \* the host whose virtxd is asked

ASSUME MeAssumption == Me \in Host
ASSUME VmAssumption == Vm # {}

VARIABLE q     \* the request and what has become of it

-----------------------------------------------------------------------------
(* The command `virtx', and the handlers of the server                      *)

\* What a command prepares: method and path, and whether it sends virtx.arg and expects
\* virtx.result.
VirtxClient(method, path, arg, result) ==
  [ask |-> <<method, path>>, arg |-> arg, result |-> result]

host_list_req == VirtxClient("GET", "hosts", TRUE, TRUE)
host_get_req == VirtxClient("GET", "host", FALSE, TRUE)
vm_create_req == VirtxClient("POST", "vms", TRUE, TRUE)
vm_list_req == VirtxClient("GET", "vms", TRUE, TRUE)
vm_update_req == VirtxClient("PUT", "vm", TRUE, FALSE)
vm_get_req == VirtxClient("GET", "vm", FALSE, TRUE)
vm_delete_req == VirtxClient("DELETE", "vm", TRUE, FALSE)
vm_runstate_get_req == VirtxClient("GET", "runstate", FALSE, TRUE)
vm_boot_req == VirtxClient("POST", "boot", TRUE, FALSE)
vm_shutdown_req == VirtxClient("DELETE", "boot", TRUE, FALSE)
vm_pause_req == VirtxClient("POST", "pause", FALSE, FALSE)
vm_resume_req == VirtxClient("DELETE", "pause", FALSE, FALSE)
vm_migrate_req == VirtxClient("POST", "migrate", TRUE, FALSE)
vm_migrate_get_req == VirtxClient("GET", "migrate", FALSE, TRUE)
vm_migrate_abort_req == VirtxClient("DELETE", "migrate", FALSE, FALSE)
vm_register_req == VirtxClient("PUT", "register", TRUE, FALSE)

Command == {host_list_req, host_get_req, vm_create_req, vm_list_req,
            vm_update_req, vm_get_req, vm_delete_req, vm_runstate_get_req,
            vm_boot_req, vm_shutdown_req, vm_pause_req, vm_resume_req,
            vm_migrate_req, vm_migrate_get_req, vm_migrate_abort_req, vm_register_req}

\* A handler: whether it decodes a body, how it finds the host that serves the
\* request, and whether its answer to success has a body.
Handler(needs, route, gives) == [needs |-> needs, route |-> route, gives |-> gives]

host_list == Handler(TRUE, "here", TRUE)
host_get == Handler(FALSE, "host", TRUE)
vm_create == Handler(TRUE, "option", TRUE)
vm_list == Handler(TRUE, "here", TRUE)
vm_update == Handler(TRUE, "vm", FALSE)
vm_get == Handler(FALSE, "vm", TRUE)
vm_delete == Handler(TRUE, "vm", FALSE)
vm_runstate_get == Handler(FALSE, "shown", TRUE)
vm_boot == Handler(TRUE, "vm", FALSE)
vm_shutdown == Handler(TRUE, "vm", FALSE)
vm_pause == Handler(FALSE, "vm", FALSE)
vm_resume == Handler(FALSE, "vm", FALSE)
vm_migrate == Handler(TRUE, "vm", FALSE)
vm_migrate_get == Handler(FALSE, "vm", TRUE)
vm_migrate_abort == Handler(FALSE, "vm", FALSE)
vm_register == Handler(TRUE, "option", FALSE)

\* A request for "host", "vm" and all below it has the uuid in its path.
servemux(ask) ==
  CASE ask = <<"GET", "hosts">> -> host_list
    [] ask = <<"GET", "host">> -> host_get
    [] ask = <<"POST", "vms">> -> vm_create
    [] ask = <<"GET", "vms">> -> vm_list
    [] ask = <<"PUT", "vm">> -> vm_update
    [] ask = <<"GET", "vm">> -> vm_get
    [] ask = <<"DELETE", "vm">> -> vm_delete
    [] ask = <<"GET", "runstate">> -> vm_runstate_get
    [] ask = <<"POST", "boot">> -> vm_boot
    [] ask = <<"DELETE", "boot">> -> vm_shutdown
    [] ask = <<"POST", "pause">> -> vm_pause
    [] ask = <<"DELETE", "pause">> -> vm_resume
    [] ask = <<"POST", "migrate">> -> vm_migrate
    [] ask = <<"GET", "migrate">> -> vm_migrate_get
    [] ask = <<"DELETE", "migrate">> -> vm_migrate_abort
    [] ask = <<"PUT", "register">> -> vm_register

Route == {"here", "shown", "host", "option", "vm"}

\* The answers: 2xx; 424, 500 or 507, which come after something was tried; and the rest.
Refused == {"400", "404", "422", "503", "508"}
Status == {"none", "2xx", "4xx/5xx", "502", "error"} \cup Refused

\* The request.  body: of the request that travels; loop: its header X-VirtX-Loop;
\* at, pc: where it is handled and how far that has got; target: the host found for it;
\* hops, ran: how often it was forwarded and carried out; status: what the client got.
Request == [h : [needs : BOOLEAN, route : Route, gives : BOOLEAN], expects : BOOLEAN,
            vm : Vm, opt : Host \cup {NoHost}, body : {"good", "odd", "bad", "none"},
            loop : BOOLEAN, at : Host, pc : {"decode", "find", "proxy", "serve", "over"},
            target : Host \cup {NoHost}, hops : 0..2, ran : 0..2, status : Status,
            has : BOOLEAN]

allvars == <<inv, q>>

-----------------------------------------------------------------------------
(* What a virtxd finds in its inventory                                     *)

\* Get_vminfo: the host of the VM, or "unknown".
Get_vminfo(h, u) ==
  IF h = Me THEN {IF u \in DOMAIN inv.vms THEN inv.vms[u].Host ELSE "unknown"}
  ELSE Host \cup {NoHost, "unknown"}

\* Get_hostinfo: its state in the cluster, or "unknown".
Get_hostinfo(h, x) ==
  IF h = Me THEN {IF x \in DOMAIN inv.hosts THEN inv.hosts[x].Info.Cstate ELSE "unknown"}
  ELSE Cstate \cup {"unknown"}

http_host_is_remote(h, x) == x # NoHost /\ x # h

-----------------------------------------------------------------------------
(* The client                                                               *)

Ask(c, u, o, b) ==
  /\ q.pc = "over" /\ q.status # "none"
  /\ b = "none" <=> ~c.arg
  /\ o # NoHost => servemux(c.ask).route \in {"host", "option"}
  /\ q' = [h |-> servemux(c.ask), expects |-> c.result, vm |-> u, opt |-> o,
           body |-> b, loop |-> FALSE, at |-> Me, pc |-> "decode", target |-> NoHost,
           hops |-> 0, ran |-> 0, status |-> "none", has |-> FALSE]
  /\ UNCHANGED inv

\* Do_request has waited 10 s.
GiveUp ==
  /\ q.status = "none"
  /\ q' = [q EXCEPT !.status = "error"]
  /\ UNCHANGED inv

-----------------------------------------------------------------------------
(* The handlers                                                             *)

\* No handler has the request any more: only what the client knows of it is kept.
Over(r) == [r EXCEPT !.pc = "over", !.h = Handler(FALSE, "here", FALSE), !.opt = NoHost,
                     !.body = "none", !.loop = FALSE, !.at = Me, !.target = NoHost]

\* The handler is done.  Its answer goes to the client, by way of the virtxd that has
\* forwarded the request, if that still waits for it.
Answer(status, has, ran) ==
  q' = Over([q EXCEPT !.ran = @ + ran,
                      !.status = IF @ = "none" THEN status ELSE @,
                      !.has = IF q.status = "none" THEN has ELSE @])

\* http.Error
Error(status) == Answer(status, TRUE, 0)

Go(pc, target) == q' = [q EXCEPT !.pc = pc, !.target = target]

Decode_request_body ==
  /\ q.pc = "decode"
  /\ IF q.h.needs /\ q.body \in {"bad", "none"} THEN Error("400") ELSE Go("find", NoHost)
  /\ UNCHANGED inv

\* A request that makes no sense is refused here, before the host is looked for, or
\* when it is served.
RefuseEarly ==
  /\ q.pc \in {"find", "proxy"} /\ q.body = "odd"
  /\ Error("422")
  /\ UNCHANGED inv

\* The host that serves the request is this one, or another.
Dispatch(x) == Go(IF http_host_is_remote(q.at, x) THEN "proxy" ELSE "serve", x)

Find ==
  /\ q.pc = "find"
  /\ \/ q.h.route = "here" /\ Go("serve", NoHost)
     \/ q.h.route = "option" /\ Dispatch(q.opt)
     \/ /\ q.h.route \in {"vm", "shown"}
        /\ \E x \in Get_vminfo(q.at, q.vm) :
             IF x = "unknown" THEN Error("404")
             ELSE IF q.h.route = "vm" THEN Dispatch(x) ELSE Go("serve", NoHost)
     \/ /\ q.h.route = "host"
        /\ \E s \in Get_hostinfo(q.at, q.opt) :
             IF s = "unknown" THEN Error("404") ELSE Dispatch(q.opt)
  /\ UNCHANGED inv

\* A variant of Proxy_request: the header is not looked at.
Proxy_request_loops ==
  q' = [q EXCEPT !.at = q.target, !.pc = "decode", !.loop = TRUE, !.hops = @ + 1,
                 !.body = IF q.h.needs THEN @ ELSE "none"]

\* The request goes to the target.  vr.body is what the handler has read of the body.
Proxy_request ==
  IF q.loop THEN Error("508")
  ELSE q' = [q EXCEPT !.at = q.target, !.pc = "decode", !.loop = TRUE, !.hops = @ + 1,
                      !.body = IF q.h.needs THEN @ ELSE "none"]

\* The inventory is asked again, and may have changed.
http_proxy_request ==
  /\ q.pc = "proxy"
  /\ \E s \in Get_hostinfo(q.at, q.target) :
       IF s # "ACTIVE" THEN Error("503") ELSE Proxy_request
  /\ UNCHANGED inv

\* Variants of ProxyTimeout: the answer says that the host is not available; and there
\* is no timeout, only connections that break.
ProxyTimeout503 ==
  /\ q.hops > 0 /\ q.status = "none"
  /\ q' = [q EXCEPT !.status = "503", !.has = TRUE]
  /\ UNCHANGED inv

ProxyBroken ==
  /\ q.hops > 0 /\ q.status = "none" /\ q.pc = "over"
  /\ q' = [q EXCEPT !.status = "502", !.has = TRUE]
  /\ UNCHANGED inv

\* client.Do of Proxy_request fails: the host does not answer, not within 10 s, or not
\* any more.  What it has begun goes on there.
ProxyTimeout ==
  /\ q.hops > 0 /\ q.status = "none"
  /\ q' = [q EXCEPT !.status = "502", !.has = TRUE]
  /\ UNCHANGED inv

\* The host that was to serve the request is gone, or the request has not reached it.
Lost ==
  /\ q.at # Me /\ q.pc # "over"
  /\ q' = Over(q)
  /\ UNCHANGED inv

\* The operation itself.
Serve ==
  /\ q.pc = "serve"
  /\ \/ q.body # "odd" /\ Answer("2xx", q.h.gives, 1)
     \/ q.body # "odd" /\ \E n \in {0, 1} : Answer("4xx/5xx", TRUE, n)
     \/ Error("422")
  /\ UNCHANGED inv

\* virtxd of Me ends and starts again, with what it was doing for the request.
Down ==
  /\ Restart
  /\ LET r == [q EXCEPT !.status = IF @ = "none" THEN "error" ELSE @]
     IN q' = IF q.at = Me THEN Over(r) ELSE r

-----------------------------------------------------------------------------
(* What vm_list and host_list show: filters with a field of 0 or "" for any  *)

\* A variant of Search_vms: the entries that are not older.
Search_vms_newer(f) ==
  {u \in DOMAIN inv.vms :
     /\ f.Host = NoHost \/ inv.vms[u].Host = f.Host
     /\ f.Runstate = "NONE" \/ inv.vms[u].Runstate = f.Runstate
     /\ f.Ts = 0 \/ inv.vms[u].Ts >= f.Ts}

Search_vms(f) ==
  {u \in DOMAIN inv.vms :
     /\ f.Host = NoHost \/ inv.vms[u].Host = f.Host
     /\ f.Runstate = "NONE" \/ inv.vms[u].Runstate = f.Runstate
     /\ f.Ts = 0 \/ inv.vms[u].Ts <= f.Ts}         \* return only older entries

Search_hosts(f) ==
  {h \in DOMAIN inv.hosts :
     /\ f.Cstate = "INVALID" \/ inv.hosts[h].Info.Cstate = f.Cstate
     /\ f.Ts = 0 \/ inv.hosts[h].Info.Ts <= f.Ts}

-----------------------------------------------------------------------------

ReqInit ==
  /\ Init
  /\ q = [h |-> Handler(FALSE, "here", FALSE), expects |-> FALSE,
          vm |-> CHOOSE u \in Vm : TRUE, opt |-> NoHost, body |-> "none", loop |-> FALSE,
          at |-> Me, pc |-> "over", target |-> NoHost, hops |-> 0, ran |-> 0,
          status |-> "error", has |-> FALSE]

Handle == Decode_request_body \/ RefuseEarly \/ Find \/ http_proxy_request \/ Serve

Gossip ==
  /\ \/ \E hi \in HostInfo : Update_host(hi)
     \/ \E h \in Host, c \in Cstate : Set_host_state(h, c)
     \/ \E e \in VmEvent : Update_vm_state(e)
     \/ \E vi \in VmInfo : Update_vm(vi)
  /\ UNCHANGED q

ReqNext ==
  \/ \E c \in Command, u \in Vm, o \in Host \cup {NoHost},
        b \in {"good", "odd", "bad", "none"} : Ask(c, u, o, b)
  \/ GiveUp \/ Handle \/ ProxyTimeout \/ Lost \/ Down
  \/ Gossip

\* The handlers of this virtxd go on, and its HTTP client gives up.  Nothing is asked of
\* other hosts, of the patience of the client, or of the inventory.
ReqFair ==
  /\ WF_allvars(q.at = Me /\ Handle)
  /\ WF_allvars(ProxyTimeout)

ReqSpec == ReqInit /\ [][ReqNext]_allvars /\ ReqFair

-----------------------------------------------------------------------------

\* The request is one at every step of http_proxy_request, Proxy_request and the
\* handlers, and is forwarded once at most: the virtxd it is forwarded to, which may
\* believe that the VM is on the first host or on a third one, answers itself.
ForwardedOnce == q \in Request /\ q.hops <= 1

\* An answer can be trusted, whichever virtxd gave it and whatever the inventories have
\* come to show meanwhile.  2xx: done, and done once.  400, 404, 422, 503 and 508:
\* not done, and nothing is left on the way that will do it; the client may ask again.
\* And Decode_response_body finds a body whenever `virtx' expects a result: nothing is
\* carried out and then reported as a failure to decode the response.
AnswersAreTrue ==
  /\ q.status = "2xx" => q.ran = 1
  /\ q.status \in Refused => q.ran = 0 /\ q.pc = "over"
  /\ q.expects /\ q.status \notin {"none", "error"} => q.has

\* The client is answered, however stale the entry that made its request go to a host
\* that has failed: Proxy_request ends with 502 where http_proxy_request did not say 503.
RequestsEnd == q.status = "none" ~> q.status # "none"

\* The VMs that delete_ghosts finds under a host are among those vm_list shows for that
\* host; and the list up to some time has all of them that were last reported by then.
ListsShowHostVms ==
  \A h \in Search_hosts([Cstate |-> "INVALID", Ts |-> 0]), t \in Ts \cup {0} :
    \A u \in inv.hosts[h].Vms :
      (t = 0 \/ inv.vms[u].Ts <= t)
        => u \in Search_vms([Host |-> h, Runstate |-> "NONE", Ts |-> t])
=============================================================================
