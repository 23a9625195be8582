----------------------------- MODULE MCPipe -----------------------------
(***************************************************************************)
(* A view for model checking module Pipe: two states are the same when     *)
(* they differ only in bytes of pi->data that are not in the queue.  No    *)
(* action and no property reads these before they are written again.       *)
(***************************************************************************)
EXTENDS Pipe

View == <<Contents, nread, nwrite, readopen, writeopen, freed, lk, pc, left, open, killed>>
========================================================================
