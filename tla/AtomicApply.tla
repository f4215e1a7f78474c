----------------------------- MODULE AtomicApply -----------------------------
(***************************************************************************)
(* What one `apply` run promises about the files it changes, to whoever    *)
(* reads the disk at any moment, after a crash included: all of them or    *)
(* none, or evidence on disk that says otherwise; and a verdict that fits. *)
(* ApplyEngine implements it for the manifests, ManagerPhase for the       *)
(* lockfiles.                                                              *)
(***************************************************************************)
CONSTANT Files

VARIABLES
  content,    \* old bytes, new bytes, somebody else's; idle files do not change
  evidence,   \* does a journal of this run exist?
  verdict     \* what the caller was told

vars == <<content, evidence, verdict>>

Contents == {"idle", "old", "new", "other"}
Verdicts == {"none", "applied", "unchanged", "unsettled"}

TypeOK == /\ content \in [Files -> Contents]
          /\ evidence \in BOOLEAN
          /\ verdict \in Verdicts

NoneNew == \A f \in Files : content[f] # "new"
NoneOld == \A f \in Files : content[f] # "old"

Init == /\ content \in [Files -> {"idle", "old"}]
        /\ evidence = FALSE
        /\ verdict = "none"

\* A journal is written before anything is replaced.
Begin == /\ verdict = "none" /\ ~evidence /\ NoneNew
         /\ evidence' = TRUE
         /\ UNCHANGED <<content, verdict>>

\* One file at a time, while the journal is there.
Replace(f) == /\ verdict = "none" /\ evidence
              /\ content[f] # "idle"
              /\ \E c \in {"old", "new", "other"} :
                   content' = [content EXCEPT ![f] = c]
              /\ UNCHANGED <<evidence, verdict>>

\* Others may change any file at any time.
Interfere(f) == /\ content' = [content EXCEPT ![f] = "other"]
                /\ UNCHANGED <<evidence, verdict>>

\* The journal goes only when no file is new or no file is old.
Forget == /\ verdict = "none" /\ evidence
          /\ NoneNew \/ NoneOld
          /\ evidence' = FALSE
          /\ UNCHANGED <<content, verdict>>

Conclude == /\ verdict = "none"
            /\ \/ verdict' = "applied" /\ NoneOld
               \/ verdict' = "unchanged" /\ NoneNew
               \/ verdict' = "unsettled"
            /\ UNCHANGED <<content, evidence>>

Next == \/ Begin \/ Forget \/ Conclude
        \/ \E f \in Files : Replace(f) \/ Interfere(f)

Spec == Init /\ [][Next]_vars

\* A mixture of old and new files always comes with evidence.
MixtureHasEvidence == NoneNew \/ NoneOld \/ evidence
=============================================================================
