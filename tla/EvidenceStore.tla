---------------------------- MODULE EvidenceStore ----------------------------
(***************************************************************************)
(* The evidence database of one run: riskprobe.evidence.store.             *)
(*                                                                         *)
(* A record is identified by the hash of its content, so equal records are *)
(* one record; here its identity is its place in the log, which is never   *)
(* rewritten.  The hash chain tells a log that was altered outside the     *)
(* program, which does not happen here: what is left of verify_chain is    *)
(* that every record comes after its parents.                              *)
(***************************************************************************)
EXTENDS Naturals, Sequences

VARIABLE evidence

Held(log, r)     == \E i \in 1..Len(log) : log[i] = r
ContentId(log, r) == CHOOSE i \in 1..Len(log) : log[i] = r

OfKind(log, k) == {i \in 1..Len(log) : log[i].kind = k}

\* append: one transaction; a record that is held already is left as it is.
AppendRecord(log, r) == IF Held(log, r) THEN log ELSE Append(log, r)

\* append_many: one transaction for the batch; a parent may be in the batch.
AppendMany(log, batch) ==
  LET after[n \in 0..Len(batch)] ==
        IF n = 0 THEN log ELSE AppendRecord(after[n - 1], batch[n])
  IN  after[Len(batch)]

\* The parents that append asks for, each in the same run.
ParentsHeld(log, r) == r.parents \subseteq 1..Len(log)

VerifyChain(log) ==
  \A i \in 1..Len(log) : log[i].parents \subseteq 1..(i - 1)

EvidenceInit == evidence = <<>>
=============================================================================
