----------------------------- MODULE Serialized -----------------------------
(***************************************************************************)
(* AML mutexes and serialized methods (interpreter.c, mutex.c): what a thread *)
(* of AML holds, in which order it may take it, and what it gives back when    *)
(* methods return or are aborted.  A thread that has to wait drops the         *)
(* namespace lock, so that the others run; between two waits a thread is       *)
(* alone, and an operation is one step.  Calls of methods that are not        *)
(* serialized change nothing here and are left out.                           *)
(***************************************************************************)
EXTENDS Integers, Sequences, SequencesExt, FiniteSets

CONSTANTS Threads,
          Entries,     \* the code each thread may start with
          Tables,      \* table-level code, which a failing method does not abort
          Methods,     \* serialized methods; each is the name of its mutex, too
          Mutexes,     \* the mutexes AML declares
          Level,       \* sync levels of both
          MaxFrames, MaxRecursion
VARIABLE s

All == Methods \cup Mutexes
Free == [owner |-> "none", depth |-> 0]
Idle == [frames |-> <<>>, held |-> <<>>, sync |-> 0, wait |-> "nothing", for |-> "nothing"]
\* Ghosts. kept: no frame of the thread ended with a mutex it had taken; once: no serialized method was
\* called from itself
Init == s = [ctx |-> [t \in Threads |-> Idle], mtx |-> [m \in All |-> Free],
             kept |-> [t \in Threads |-> TRUE], once |-> TRUE]

Ctx(t) == s.ctx[t]
Runs(t) == Ctx(t).frames # <<>> /\ Ctx(t).wait = "nothing"
Owns(t, m) == s.mtx[m].owner = t

\* uacpi_release_aml_mutex: the mutex is free when its depth is used up
uacpi_release_aml_mutex(x, m) ==
    [x EXCEPT !.mtx[m] = IF @.depth > 1 THEN [@ EXCEPT !.depth = @ - 1] ELSE Free]

\* A forced release ends all acquisitions; one that is not forced is ignored below the top level
BugRemoveAndRelease(x, t, m, force) ==
    LET held == x.ctx[t].held
    IN IF held = <<>> \/ (~force /\ Level[Last(held)] # Level[m]) \/ ~Contains(held, m) THEN x
       ELSE uacpi_release_aml_mutex([x EXCEPT !.ctx[t].held = Remove(held, m)], m)
held_mutexes_array_remove_and_release(x, t, m, force) ==
    LET held == x.ctx[t].held
        gone == [x EXCEPT !.ctx[t].held = Remove(held, m), !.mtx[m].depth = 1]
    IN CASE held = <<>> -> x
         [] held # <<>> /\ ~force /\ Level[Last(held)] # Level[m] -> x
         [] held # <<>> /\ ~force /\ Level[Last(held)] = Level[m] /\ x.mtx[m].depth > 1 ->
              uacpi_release_aml_mutex(x, m)
         [] OTHER -> IF Contains(held, m) THEN uacpi_release_aml_mutex(gone, m) ELSE x

\* The frame on top ends, by itself or by an error
ctx_reload_post_ret(x, t) ==
    LET c == x.ctx[t]
        f == Last(c.frames)
        y == IF f.m \in Methods
             THEN [held_mutexes_array_remove_and_release(x, t, f.m, TRUE) EXCEPT !.ctx[t].sync = f.prev] ELSE x
    IN [y EXCEPT !.ctx[t].frames = Front(@), !.kept[t] = @ /\ ToSet(y.ctx[t].held) \subseteq f.had]

RECURSIVE stack_unwind(_, _, _)
stack_unwind(x, t, idx) ==
    LET frames == x.ctx[t].frames
        table == Last(frames).m \in Tables
    IN IF frames = <<>> \/ (table /\ idx # 0) THEN x
       ELSE IF table THEN ctx_reload_post_ret(x, t)
       ELSE stack_unwind(ctx_reload_post_ret(x, t), t, idx + 1)

\* The end of the execution: what is still held is released
RECURSIVE execution_context_release(_, _)
execution_context_release(x, t) ==
    IF x.ctx[t].frames # <<>> THEN x
    ELSE IF x.ctx[t].held = <<>> THEN [x EXCEPT !.ctx[t] = Idle, !.kept[t] = TRUE]
    ELSE execution_context_release(
             held_mutexes_array_remove_and_release(x, t, Last(x.ctx[t].held), TRUE), t)
Abort(x, t) == execution_context_release(stack_unwind(x, t, 0), t)

Took(x, t, m) == [x EXCEPT !.mtx[m] = [owner |-> t, depth |-> 1], !.ctx[t].held = Append(@, m)]
NewFrame(x, t, m) ==
    [x EXCEPT !.ctx[t].frames = Append(@, [m |-> m, prev |-> x.ctx[t].sync, had |-> ToSet(x.ctx[t].held) \ {m}]),
              !.ctx[t].sync = IF m \in Methods THEN Level[m] ELSE @,
              !.once = @ /\ (m \in Methods => \A i \in DOMAIN x.ctx[t].frames : x.ctx[t].frames[i].m # m)]

\* enter_method: a serialized method runs at its level, with its mutex, for which it may have to wait.
\* There may be no memory to note the mutex in, or for the call: then it is given back, or stays held
Entered(x, t, m) ==
    {NewFrame(Took(x, t, m), t, m), Abort(x, t), Abort([Took(x, t, m) EXCEPT !.ctx[t].sync = Level[m]], t)}
enter_method(t, m) ==
    CASE m \notin Methods \/ (Ctx(t).sync <= Level[m] /\ Owns(t, m)) -> s' \in {NewFrame(s, t, m), Abort(s, t)}
      [] m \in Methods /\ Ctx(t).sync > Level[m] -> s' = Abort(s, t)
      [] m \in Methods /\ Ctx(t).sync <= Level[m] /\ s.mtx[m].owner = "none" -> s' \in Entered(s, t, m)
      [] OTHER -> s' = [s EXCEPT !.ctx[t].wait = m, !.ctx[t].for = "call"]

Start(t, m) == Ctx(t) = Idle /\ enter_method(t, m)
Call(t, m) ==
    /\ Runs(t)
    /\ IF Len(Ctx(t).frames) < MaxFrames THEN enter_method(t, m) ELSE s' = Abort(s, t)

\* AcquireOp: below the current level it is refused, as if it had timed out
Acquired(x, t, m) ==
    {[Took(x, t, m) EXCEPT !.ctx[t].sync = Level[m]], Abort(x, t)}
Acquire(t, m) ==
    /\ Runs(t)
    /\ CASE Ctx(t).sync > Level[m] -> s' = s
         [] Ctx(t).sync <= Level[m] /\ Owns(t, m) ->
              s' = [s EXCEPT !.mtx[m].depth = IF @ = MaxRecursion THEN @ ELSE @ + 1]
         [] Ctx(t).sync <= Level[m] /\ s.mtx[m].owner = "none" ->
              s' \in Acquired(s, t, m)
         [] OTHER -> s' \in {s, [s EXCEPT !.ctx[t].wait = m, !.ctx[t].for = "acquire"]}

\* The mutex waited for is free; or the time is over, which is no error for an AcquireOp
Awake(t) == [s EXCEPT !.ctx[t].wait = "nothing", !.ctx[t].for = "nothing"]
Granted(t) ==
    /\ Ctx(t).wait \in All /\ s.mtx[Ctx(t).wait].owner = "none"
    /\ s' \in IF Ctx(t).for = "call" THEN Entered(Awake(t), t, Ctx(t).wait) ELSE Acquired(Awake(t), t, Ctx(t).wait)
TimedOut(t) == Ctx(t).for = "acquire" /\ s' = Awake(t)

\* ReleaseOp: only of an owned mutex, and only of the level acquired last
Release(t, m) ==
    /\ Runs(t)
    /\ LET x == held_mutexes_array_remove_and_release(s, t, m, FALSE)
           held == x.ctx[t].held
       IN s' = IF Owns(t, m)
               THEN [x EXCEPT !.ctx[t].sync = IF held = <<>> THEN 0 ELSE Level[Last(held)]] ELSE s

Return(t) == Runs(t) /\ s' = execution_context_release(ctx_reload_post_ret(s, t), t)
Fail(t) == Runs(t) /\ s' = Abort(s, t)

Next == \E t \in Threads :
    \/ \E m \in Entries[t] : Start(t, m)
    \/ \E m \in Methods : Call(t, m)
    \/ \E m \in Mutexes : Acquire(t, m) \/ Release(t, m)
    \/ Granted(t) \/ TimedOut(t) \/ Return(t) \/ Fail(t)

-----------------------------------------------------------------------------
(* Properties *)

\* A thread owns exactly the mutexes in its list, each of them there once: every way out of a method,
\* returns and errors alike, gives back what it has to, and nothing twice; a thread that has ended owns
\* nothing.
OwnedIsListed ==
    \A t \in Threads : \A m \in All :
        /\ Owns(t, m) = Contains(Ctx(t).held, m)
        /\ Cardinality({i \in DOMAIN Ctx(t).held : Ctx(t).held[i] = m}) <= 1

\* While no serialized method is called from itself, the frames of one are frames of one thread, the
\* one that owns its mutex.
SerializedAlone ==
    s.once => \A t \in Threads : \A i \in DOMAIN Ctx(t).frames :
        LET m == Ctx(t).frames[i].m IN m \in Methods => Owns(t, m)

\* While no frame leaves a mutex behind, the levels keep two threads from waiting for each other.
NoCircularWait ==
    \A t, u \in Threads :
        t # u /\ s.kept[t] /\ s.kept[u] /\ Ctx(t).wait \in All /\ Ctx(u).wait \in All =>
            ~(Owns(u, Ctx(t).wait) /\ Owns(t, Ctx(u).wait))
=============================================================================
