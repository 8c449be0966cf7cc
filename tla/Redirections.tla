---------------------------- MODULE Redirections ----------------------------
(***************************************************************************)
(* What .> and its relatives promise: stdout and stderr each have a stack  *)
(* of redirections; a command pushes to one of them or to both, or pops    *)
(* from one of them or from both.                                          *)
(***************************************************************************)
EXTENDS Sequences, SequencesExt

CONSTANTS
  Stream,   \* what can be redirected
  Target    \* where to

VARIABLE redirections   \* [Stream -> Seq(Target)], the latest one last

Init == redirections = [s \in Stream |-> <<>>]

Push(S, t) ==
  redirections' =
    [s \in Stream |-> IF s \in S THEN Append(redirections[s], t) ELSE redirections[s]]

Pop(S) ==
  redirections' =
    [s \in Stream |-> IF s \in S /\ redirections[s] # <<>> THEN Front(redirections[s])
                                                          ELSE redirections[s]]

Clear == redirections' = [s \in Stream |-> <<>>]

Next ==
  \/ \E S \in (SUBSET Stream) \ {{}} : Pop(S) \/ \E t \in Target : Push(S, t)
  \/ Clear

Spec == Init /\ [][Next]_redirections

=============================================================================
