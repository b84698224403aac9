--------------------------- MODULE AtomicVersions ---------------------------
(***************************************************************************)
(* What HermesFlow promises about the history of one active capability:    *)
(* every change of the active version happens in one indivisible step and  *)
(* adds a version at the end of the history; a candidate is promoted at    *)
(* most once, and only on top of the very version it was derived from; a   *)
(* rollback publishes the content of an existing version, an earlier one   *)
(* of the capability or one of another script.  Promotion refines this     *)
(* specification: jobs interleave their reads and writes, but nobody can   *)
(* tell them from these atomic steps.                                      *)
(***************************************************************************)
EXTENDS Naturals, Sequences

CONSTANTS Candidates,   \* the candidates derived from the capability
          Original,     \* the content of its first version
          Edited,       \* the content of a deployment made outside HermesFlow
          Scripts       \* the contents of versions of other scripts

VARIABLES log,          \* contents of the versions, oldest first; the last is active
          base,         \* base version of each candidate, 0 while it does not exist
          promoted      \* the candidates promoted so far

vars == <<log, base, promoted>>

Init == /\ log = <<Original>>
        /\ base = [c \in Candidates |-> 0]
        /\ promoted = {}

Derive(c) == /\ base[c] = 0
             /\ \E v \in 1..Len(log) : base' = [base EXCEPT ![c] = v]
             /\ UNCHANGED <<log, promoted>>

Promote(c) == /\ base[c] = Len(log)
              /\ c \notin promoted
              /\ log' = Append(log, c)
              /\ promoted' = promoted \union {c}
              /\ UNCHANGED base

Restore == /\ \E content \in {log[v] : v \in 1..Len(log)} \union Scripts :
                log' = Append(log, content)
           /\ UNCHANGED <<base, promoted>>

Deploy == /\ log' = Append(log, Edited)
          /\ UNCHANGED <<base, promoted>>

Next == \/ \E c \in Candidates : Derive(c) \/ Promote(c)
        \/ Restore
        \/ Deploy

Spec == Init /\ [][Next]_vars
=============================================================================
