----------------------------- MODULE EventLoop -----------------------------
(***************************************************************************)
(* EventLoop (eventloop.hh/.cc): one call of wait_next_event(), for a list *)
(* of rules and the state that their functions work on.  The functions of  *)
(* a rule belong to the module that has the rules, and the callbacks are   *)
(* actions there: other threads run between them.  A rule is its place in  *)
(* the order in which the rules were added; none is added later, so the    *)
(* list is the set of those not erased, in the order of the numbers.       *)
(* ready and hungUp are the rules for whose descriptors poll() reports it. *)
(***************************************************************************)
EXTENDS Naturals

\* The first pass goes through the rules in their order ...
NewPass(loop, state) == [state |-> state, rules |-> loop.rules, polled |-> {}]

\* ... and a rule whose descriptor is closed or at its end is cancelled, which
\* changes the state, and erased; an interested one is polled.
Visited(pass, r, over, cancelled, interested) ==
  IF r \notin pass.rules THEN pass
  ELSE IF over THEN [pass EXCEPT !.state = cancelled, !.rules = @ \ {r}]
  ELSE [pass EXCEPT !.polled = IF interested THEN @ \cup {r} ELSE @]

\* What is found ready is served in the second pass, whatever the callbacks
\* before it did to its interest; of the rules that are not polled only an
\* error would count.  A rule whose descriptor has only hung up is dead.
Dead(pass, ready, hungUp) == (pass.polled \cap hungUp) \ ready

Todo(pass, ready, hungUp) == pass.polled \cap (ready \cup hungUp)

\* poll() returns for a hang-up nobody asked about too.
Wakes(pass, ready, hungUp) == pass.polled \cap ready # {} \/ pass.rules \cap hungUp # {}

\* The loop between two callbacks: where it is, the rules it has, those still
\* to be served and which of these are dead.
NewLoop == [at |-> "wait", rules |-> 1..4, todo |-> {}, dead |-> {}]

Polled(loop, pass, ready, hungUp) ==
  [loop EXCEPT !.at = "serve", !.rules = pass.rules,
               !.todo = Todo(pass, ready, hungUp), !.dead = Dead(pass, ready, hungUp)]

\* The second pass goes in the same order.
IsNext(loop, r) == loop.at = "serve" /\ r \in loop.todo /\ \A q \in loop.todo : r <= q

Serves(loop, r) == IsNext(loop, r) /\ r \notin loop.dead
Served(loop, r) == [loop EXCEPT !.todo = @ \ {r}]
Drops(loop, r) == IsNext(loop, r) /\ r \in loop.dead
Dropped(loop, r) == [loop EXCEPT !.todo = @ \ {r}, !.rules = @ \ {r}]
=============================================================================
