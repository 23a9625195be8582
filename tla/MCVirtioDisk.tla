-------------------------- MODULE MCVirtioDisk --------------------------
(***************************************************************************)
(* A view for model checking module VirtioDisk: two states are the same    *)
(* when they differ only in ring entries that both sides have passed and   *)
(* in the book-keeping of descriptors that head no request.  No action and *)
(* no property reads these before they are written again.                  *)
(***************************************************************************)
EXTENDS VirtioDisk

\* The ring slots from index a up to, but not including, index z.
Between(a, z) == {(a + k) % NUM : k \in 0 .. (((z - a) % UINT16) - 1)}

Live(f, S) == [k \in S |-> f[k]]

View ==
    LET heads == {idx0[b] : b \in InFlight}
        written == IF \E b \in Buf : pc[b] = "publish" THEN avail.idx + 1 ELSE avail.idx
    IN <<desc, free, Live(info, heads), Live(ops, heads),
         avail.idx, Live(avail.ring, Between(dev.idx, written)),
         used.idx, Live(used.ring, Between(used_idx, used.idx)), used_idx,
         lk, callVars, panic, block, data, devVars>>
========================================================================
