--------------------------- MODULE ObjectPoolLite ---------------------------
(***************************************************************************)
(* ObjectPoolLite of src/five/five/object_pool.h (50-88).  get pops the    *)
(* object put last and calls the factory when there is none.  The          *)
(* constructor's loop over xrange(initial) is empty, because begin() and   *)
(* end() of xrange.h (43-55) are equal: every pool starts empty.           *)
(***************************************************************************)
EXTENDS Naturals, Sequences

EmptyPool == <<>>

(* What get returns, when made is what the factory would make.             *)
Got(pool, made) == IF pool = <<>> THEN made ELSE pool[Len(pool)]

AfterGet(pool) == IF pool = <<>> THEN pool ELSE SubSeq(pool, 1, Len(pool) - 1)

AfterPut(pool, object) == Append(pool, object)

=============================================================================
