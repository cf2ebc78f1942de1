---------------------------- MODULE OrderedLine -----------------------------
(***************************************************************************)
(* What the sending half promises to the link: a line that emits the       *)
(* accepted blocks one by one, in order, under consecutive wrapping ids,   *)
(* until it goes down for good, perhaps in the middle of a block.          *)
(***************************************************************************)
EXTENDS BlockIds, Sequences

CONSTANT Blocks

VARIABLES accepted,  \* the blocks accepted so far
          emitted,   \* the blocks on the link, with their ids
          up         \* FALSE once the line stopped emitting

lineVars == <<accepted, emitted, up>>

Init == accepted = <<>> /\ emitted = <<>> /\ up = TRUE

Accept ==
  /\ \E b \in Blocks : accepted' = Append(accepted, b)
  /\ UNCHANGED <<emitted, up>>

EmitNext ==
  /\ Len(emitted) < Len(accepted)
  /\ emitted' = Append(emitted, [id    |-> IdOf(Len(emitted)),
                                 block |-> accepted[Len(emitted) + 1]])
  /\ UNCHANGED accepted

Emit == up /\ EmitNext /\ UNCHANGED up

GoDown == up /\ up' = FALSE /\ (EmitNext \/ UNCHANGED <<accepted, emitted>>)

Next == Accept \/ Emit \/ GoDown

Spec == Init /\ [][Next]_lineVars
FairSpec == Spec /\ WF_lineVars(Emit)

=============================================================================
