----------------------------- MODULE Unmarshalling -----------------------------
(***************************************************************************)
(* Unmarshal: the loop over the fields of a buffer, which ReadField enters *)
(* again for each field that holds a message.  It is the value that a run  *)
(* gives to Protobuf's constant Unmarshal.                                 *)
(***************************************************************************)
EXTENDS Protobuf

RECURSIVE ReadAll(_, _, _)
ReadAll(cases, dAtA, r) ==
    IF r.ok /\ r.iNdEx < Len(dAtA) THEN ReadAll(cases, dAtA, ReadField(cases, dAtA, r)) ELSE r

UnmarshalAll(cases, dAtA, m) ==
    LET start == [ok |-> TRUE, iNdEx |-> 0, m |-> m]
    IN  ReadAll(cases, dAtA, start)
===============================================================================
