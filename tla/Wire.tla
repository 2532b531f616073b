-------------------------------- MODULE Wire --------------------------------
(***************************************************************************)
(* pkg/encoding/sbinary, and the payloads pkg/serfcomm makes with it.  A   *)
(* value is written field by field without names or types, so the receiver *)
(* has to come to the same lengths as the sender.                          *)
(*                                                                         *)
(* A byte has BASE values and a message MAX_MESSAGE_SIZE bytes; a length   *)
(* of two bytes can tell every size that fits.  The order is that of       *)
(* serfcomm, little endian.  A type is a record with a kind; an error is   *)
(* the value Err.                                                          *)
(***************************************************************************)
EXTENDS Integers, Sequences, SequencesExt, Functions

CONSTANTS BASE, MAX_MESSAGE_SIZE,
          Messages,    \* what may be sent: a type and a value
          Err

VARIABLES msg,         \* what a host sends
          payload,     \* the user event, or Err when there is none
          got          \* what another host made of it, or Err

wireVars == <<msg, payload, got>>

ASSUME WireAssumption ==
  /\ BASE \in Nat /\ BASE % 2 = 0 /\ BASE > 0
  /\ MAX_MESSAGE_SIZE \in 1..(BASE * BASE - 1)

-----------------------------------------------------------------------------
(* Kinds: the integers with their width, strings and byte slices, slices    *)
(* and arrays of other types, structs                                       *)

Width == [u8 |-> 1, i8 |-> 1, bool |-> 1, u16 |-> 2, i16 |-> 2, u32 |-> 4, i32 |-> 4,
          u64 |-> 8, i64 |-> 8]
Signed == {"i8", "i16", "i32", "i64"}

String == [kind |-> "bytes"]
Slice(elem) == [kind |-> "slice", elem |-> elem]
Struct(fields) == [kind |-> "struct", fields |-> fields]
Num(kind) == [kind |-> kind]

\* The three payloads.
VmEvent == Struct(<<String, String, Num("i16"), Num("i64")>>)
CustomField == Struct(<<String, String>>)
VmInfo == Struct(<<VmEvent, String, Num("i16"), Slice(CustomField), Num("i16")>>)
Cpuarch == Struct(<<String, String>>)
Cpudef == Struct(<<String, Num("i16"), Num("i16"), Num("i16"), Num("i16")>>)
HostInfo == Struct(<<String, String, Cpuarch, Cpudef, Num("i16"), Num("i32"), Num("i32"),
                     String, String, Num("i64")>>)

-----------------------------------------------------------------------------
(* Encode                                                                   *)

\* The w bytes of an integer, the least significant first; a negative one is
\* converted to unsigned.
PutUint(n, w) == [i \in 1..w |-> (n \div BASE^(i - 1)) % BASE]

encode_length(n) == PutUint(n, 2)

\* Every write looks at the room that is left first.
Fits(bytes, room) == IF Len(bytes) <= room THEN bytes ELSE Err

RECURSIVE encode_value(_, _, _), encode_fields(_, _, _)

encode_fields(types, vals, room) ==
  IF vals = <<>> THEN <<>>
  ELSE LET one == encode_value(Head(types), Head(vals), room) IN
       IF one = Err THEN Err
       ELSE LET rest == encode_fields(Tail(types), Tail(vals), room - Len(one)) IN
            IF rest = Err THEN Err ELSE one \o rest

encode_array(elem, vals, room) ==
  IF room < 2 THEN Err
  ELSE LET rest == encode_fields([i \in DOMAIN vals |-> elem], vals, room - 2) IN
       IF rest = Err THEN Err ELSE encode_length(Len(vals)) \o rest

encode_value(type, val, room) ==
  CASE type.kind = "struct" -> encode_fields(type.fields, val, room)
    [] type.kind = "bytes" -> Fits(encode_length(Len(val)) \o val, room)
    [] type.kind = "slice" -> encode_array(type.elem, val, room)
    [] type.kind = "bool" -> Fits(<<IF val THEN 1 ELSE 0>>, room)
    [] OTHER -> Fits(PutUint(val, Width[type.kind]), room)

Encode(type, val) == encode_value(type, val, MAX_MESSAGE_SIZE)

-----------------------------------------------------------------------------
(* Decode: a value and the number of bytes it took, or Err                  *)

\* order.Uint16 and the like.
Uint(buf, w) == FoldRightDomain(LAMBDA i, acc : buf[i] + BASE * acc, [i \in 1..w |-> i], 0)

\* A variant of SetInt: an integer is taken as it was read.
SetIntUnsigned(kind, n) == n

\* reflect's SetInt cuts the int64 to the width of the field, and so brings the sign back.
SetInt(kind, n) ==
  IF kind \in Signed /\ 2 * n >= BASE^Width[kind] THEN n - BASE^Width[kind] ELSE n

decode_bytes(buf) ==
  IF Len(buf) < 2 THEN Err
  ELSE LET n == Uint(buf, 2) IN
       IF Len(buf) - 2 < n THEN Err ELSE [val |-> SubSeq(buf, 3, 2 + n), size |-> 2 + n]

decode_int(kind, buf) ==
  LET w == Width[kind] IN
  IF Len(buf) < w THEN Err ELSE [val |-> SetInt(kind, Uint(buf, w)), size |-> w]

decode_bool(buf) ==
  IF Len(buf) < 1 \/ buf[1] \notin {0, 1} THEN Err ELSE [val |-> buf[1] = 1, size |-> 1]

RECURSIVE decode_value(_, _), decode_fields(_, _)

decode_fields(types, buf) ==
  IF types = <<>> THEN [val |-> <<>>, size |-> 0]
  ELSE LET one == decode_value(Head(types), buf) IN
       IF one = Err THEN Err
       ELSE LET rest == decode_fields(Tail(types), SubSeq(buf, one.size + 1, Len(buf))) IN
            IF rest = Err THEN Err
            ELSE [val |-> <<one.val>> \o rest.val, size |-> one.size + rest.size]

decodeArray(elem, buf) ==
  IF Len(buf) < 2 THEN Err
  ELSE LET n == Uint(buf, 2)
           rest == decode_fields([i \in 1..n |-> elem], SubSeq(buf, 3, Len(buf)))
       IN IF rest = Err THEN Err ELSE [val |-> rest.val, size |-> 2 + rest.size]

decode_value(type, buf) ==
  CASE type.kind = "struct" -> decode_fields(type.fields, buf)
    [] type.kind = "bytes" -> decode_bytes(buf)
    [] type.kind = "slice" -> decodeArray(type.elem, buf)
    [] type.kind = "bool" -> decode_bool(buf)
    [] OTHER -> decode_int(type.kind, buf)

Decode(type, buf) == decode_value(type, buf)

-----------------------------------------------------------------------------
WireInit == msg \in Messages /\ payload = Err /\ got = Err

\* send_host_info, send_vm_info, send_vm_event: nothing is sent that cannot be encoded.
send ==
  /\ payload = Err
  /\ payload' = Encode(msg.type, msg.val)
  /\ UNCHANGED <<msg, got>>

\* handle_user_event, by the label of the event.
handle_user_event ==
  /\ payload # Err
  /\ LET d == Decode(msg.type, payload) IN got' = IF d = Err THEN Err ELSE d.val
  /\ UNCHANGED <<msg, payload>>

WireNext == send \/ handle_user_event

-----------------------------------------------------------------------------
(* Properties                                                               *)

RECURSIVE Size(_, _)
Size(type, val) ==
  LET sum(types) == FoldLeftDomain(LAMBDA acc, i : acc + Size(types[i], val[i]), 0, val) IN
  CASE type.kind = "struct" -> sum(type.fields)
    [] type.kind = "bytes" -> 2 + Len(val)
    [] type.kind = "slice" -> 2 + sum([i \in DOMAIN val |-> type.elem])
    [] OTHER -> Width[type.kind]

\* What a host makes of a message is what was sent, negative numbers and empty lists
\* included; a message is sent exactly when it fits, and no part of one that was cut
\* short is taken for a message, at whatever byte it was cut.
MessagesArriveWhole ==
  msg # Err =>
    /\ got # Err => got = msg.val
    /\ (Encode(msg.type, msg.val) # Err) = (Size(msg.type, msg.val) <= MAX_MESSAGE_SIZE)
    /\ payload # Err =>
         /\ Decode(msg.type, payload) = [val |-> msg.val, size |-> Len(payload)]
         /\ \A n \in 0..(Len(payload) - 1) : Decode(msg.type, SubSeq(payload, 1, n)) = Err
=============================================================================
