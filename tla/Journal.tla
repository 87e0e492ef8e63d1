------------------------------ MODULE Journal ------------------------------
(***************************************************************************)
(* What the checkpoints of a training promise of its history, with no      *)
(* mention of sessions, files or epochs: a durable log that changes only   *)
(* by being rewritten, a rewrite that either adds one entry or starts a    *)
(* new log of one entry, and a rewrite that, when it is abandoned half-way,*)
(* leaves no log at all.                                                   *)
(***************************************************************************)
EXTENDS Naturals, Sequences

VARIABLES
  journal,   \* the durable log; <<>> while there is none that can be read
  inflight   \* the log a rewrite is about to make durable; <<>> between them

jvars == <<journal, inflight>>

JInit == journal = <<>> /\ inflight = <<>>

(* A rewrite opens the file, and the old log is gone. *)
Begin ==
  /\ inflight = <<>>
  /\ inflight' # <<>>
  /\ SubSeq(inflight', 1, Len(inflight') - 1) \in {journal, <<>>}
  /\ journal' = <<>>

Finish ==
  /\ inflight # <<>>
  /\ journal' = inflight
  /\ inflight' = <<>>

Abandon ==
  /\ inflight # <<>>
  /\ inflight' = <<>>
  /\ journal' = <<>>

JNext == Begin \/ Finish \/ Abandon

JSpec == JInit /\ [][JNext]_jvars
=============================================================================
