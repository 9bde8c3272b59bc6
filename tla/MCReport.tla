------------------------------ MODULE MCReport ------------------------------
(***************************************************************************)
(* Report for TLC: up to five arguments after the path, which is room for  *)
(* each flag once with its value, or for one twice; an evidence of up to   *)
(* three bytes read two at a time; two partitions and three events inside  *)
(* their volumes.                                                          *)
(***************************************************************************)
EXTENDS Report

ASSUME /\ MaxArgs >= 5              \* all three flags fit
       /\ MaxSize > BufferLen       \* more than one read
       /\ BufferLen > 1             \* a read may yield less than it could
       /\ MaxPartitions > 1 /\ MaxEvents >= 3
=============================================================================
