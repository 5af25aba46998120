------------------------------ MODULE SocialCursor ------------------------------
(***************************************************************************)
(* The checkpoint of a Social Turn and the pure functions that move it.    *)
(*                                                                         *)
(* A cursor names the turns still to be taken and what the interaction has *)
(* already spent.  Core stores one cursor per durable operation; a step's  *)
(* generation proposes the next one (orchestration/social_turn_graph.py)   *)
(* and the delivery acknowledgement decides which projection of it becomes *)
(* the checkpoint (persistence/runtime_durability_repository.py).          *)
(***************************************************************************)
EXTENDS Integers, FiniteSets, Sequences, SequencesExt

CONSTANTS
  Deployment,     \* Characters deployed in the room
  Nobody,         \* source_deployment_id of a turn no Character invited
  Available,      \* available_deployment_ids of the operation
  MaxAttempts,    \* generation attempts of one interaction (12 in the code)
  MaxSpoken,      \* visible turns of one interaction (6)
  MaxPerSpeaker,  \* visible turns of one Character (2)
  MaxSpeakers,    \* distinct Characters (3)
  MaxDepth,       \* continuation depth
  Continuations   \* continuation budget

ASSUME BudgetAssumption ==
  /\ Nobody \notin Deployment
  /\ Available \subseteq Deployment
  /\ {MaxAttempts, MaxSpoken, MaxPerSpeaker, MaxSpeakers} \subseteq Nat \ {0}
  /\ {MaxDepth, Continuations} \subseteq Nat

Turn == [dep : Deployment, origin : {"selected", "invite", "mention"},
         depth : Nat, source : Deployment \cup {Nobody}]

Cursor == [pending : Seq(Turn), completed : Seq(Deployment),
           budget : Nat, index : Nat, attempts : Nat]

Selected(d) == [dep |-> d, origin |-> "selected", depth |-> 0, source |-> Nobody]

\* initial_cursor: one selected turn per Character, in the order it was chosen.
InitialCursor(chosen) ==
  [pending |-> [i \in DOMAIN chosen |-> Selected(chosen[i])],
   completed |-> << >>, budget |-> Continuations, index |-> 0, attempts |-> 0]

NoCursor == InitialCursor(<< >>)

Spoken(turns, d) == Cardinality({i \in DOMAIN turns : turns[i] = d})

\* _admit_participant: the head turn may still speak.
Admissible(c) ==
  LET d        == Head(c.pending).dep
      speakers == ToSet(c.completed)
  IN  /\ d \in Available
      /\ c.attempts < MaxAttempts
      /\ Len(c.completed) < MaxSpoken
      /\ Spoken(c.completed, d) < MaxPerSpeaker
      /\ d \notin speakers => Cardinality(speakers) < MaxSpeakers

\* One round of the proposal loop of _expand_and_advance: acc holds the turns
\* inserted so far, the budget left and who already has a place.
Insert(current, rest, completed, acc, proposal) ==
  LET admitted ==
        /\ acc.budget > 0
        /\ proposal.dep \in Available \ (acc.known \cup {current.dep})
        /\ Spoken(completed, proposal.dep) < MaxPerSpeaker
        /\ proposal.dep \notin acc.distinct => Cardinality(acc.distinct) < MaxSpeakers
        /\ Len(completed) + Len(rest) + Len(acc.turns) < MaxSpoken
  IN  IF ~admitted THEN acc
      ELSE [turns    |-> Append(acc.turns, [dep |-> proposal.dep, origin |-> proposal.origin,
                                            depth |-> current.depth + 1, source |-> current.dep]),
            known    |-> acc.known \cup {proposal.dep},
            distinct |-> acc.distinct \cup {proposal.dep},
            budget   |-> acc.budget - 1]

\* _expand_and_advance: the cursor a generated step proposes.  Selected requests
\* keep their place before the invitations the reply makes.
Advance(c, visible, proposals) ==
  LET current   == Head(c.pending)
      rest      == Tail(c.pending)
      completed == IF visible THEN Append(c.completed, current.dep) ELSE c.completed
      known     == {rest[i].dep : i \in DOMAIN rest}
      attempts  == c.attempts + 1
      open      == visible /\ current.depth + 1 <= MaxDepth /\ attempts < MaxAttempts
      start     == [turns |-> << >>, known |-> known,
                    distinct |-> ToSet(completed) \cup known, budget |-> c.budget]
      grown     == FoldLeft(LAMBDA acc, p : Insert(current, rest, completed, acc, p),
                            start, IF open THEN proposals ELSE << >>)
      spent     == Len(completed) >= MaxSpoken \/ attempts >= MaxAttempts
  IN  [pending   |-> IF spent THEN << >> ELSE rest \o grown.turns,
       completed |-> completed, budget |-> grown.budget,
       index     |-> c.index + 1, attempts |-> attempts]

\* Projections the ledger applies before it stores a proposed cursor.
OnlySelected(c) == [c EXCEPT !.pending = SelectSeq(@, LAMBDA t : t.origin = "selected")]
WithoutInvitesOf(c, d) == [c EXCEPT !.pending = SelectSeq(@, LAMBDA t : t.source # d)]
=============================================================================
