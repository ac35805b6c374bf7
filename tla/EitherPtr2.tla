----------------------------- MODULE EitherPtr2 -----------------------------
(***************************************************************************)
(* The tagged pointer of src/five/five/bit_ptr.h: an object of one of      *)
(* several types, aligned so that the low bits of its address are free to  *)
(* hold the index of its type.  Handles are copied by way of their raw     *)
(* value and destroyed at the end of their scope.                          *)
(***************************************************************************)
EXTENDS Integers, Sequences

CONSTANTS
  Count,        (* sizeof...(Args): how many types, 1 to 32.               *)
  MaxHandles    (* Bound: how many handles a scope holds.                  *)

VARIABLES
  objects,      (* The addresses of the objects that were not destroyed.   *)
  handles,      (* The ptr_ of the handles in scope, in the order of their *)
                (* construction.                                           *)
  next          (* The address the next object is given.                   *)

eitherVars == <<objects, handles, next>>

(* log2<n>() and what is derived from it: bit_count() as the power of two, *)
(* mask() as its remainder.                                                *)
Alignment(n) ==
  IF n <= 1 THEN 1 ELSE IF n <= 2 THEN 2 ELSE IF n <= 4 THEN 4
  ELSE IF n <= 8 THEN 8 ELSE IF n <= 16 THEN 16 ELSE 32

GetBits(raw, n) == raw % Alignment(n)

GetAligned(raw, n) == raw - GetBits(raw, n)

SetBits(raw, bits, n) == GetAligned(raw, n) + (bits % Alignment(n))

EitherInit == objects = {} /\ handles = <<>> /\ next = Alignment(Count)

construct(N) ==
  /\ Len(handles) < MaxHandles
  /\ objects' = objects \cup {next}
  /\ handles' = Append(handles, SetBits(next, N, Count))
  /\ next' = next + Alignment(Count)

FromRaw(h) ==
  /\ Len(handles) < MaxHandles
  /\ handles' = Append(handles, handles[h])
  /\ UNCHANGED <<objects, next>>

(* The destructors of a scope run in the reverse order.  destroy() is      *)
(* empty.                                                                  *)
destroy ==
  /\ handles # <<>>
  /\ handles' = SubSeq(handles, 1, Len(handles) - 1)
  /\ UNCHANGED <<objects, next>>

EitherNext ==
  \/ \E N \in 0 .. Count - 1 : construct(N)
  \/ \E h \in DOMAIN handles : FromRaw(h)
  \/ destroy

EitherSpec == EitherInit /\ [][EitherNext]_eitherVars

-----------------------------------------------------------------------------

(* DestroyedWithScope: what ut/bit_ptr.cc:52-60 expects, that an object is *)
(* destroyed with the scope of its handle.                                 *)
DestroyedWithScope == handles = <<>> => objects = {}

=============================================================================
