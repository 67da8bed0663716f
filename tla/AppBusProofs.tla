---------------------------- MODULE AppBusProofs ----------------------------
(***************************************************************************)
(* The safety properties of an application of plugins and of the channel   *)
(* they use, proved for any plugins, with any requirements (cycles         *)
(* included), any autostart list, any signals and any number of            *)
(* subscriptions and messages.                                             *)
(***************************************************************************)
EXTENDS AppBus, WellFoundedInduction, TLAPS

Places == {"initialize", "startup", "exec", "shutdown", "leaving", "exited", "crashed"}

States == {"registered", "initialized", "started", "stopped"}

BTypeOK ==
    /\ main \in Places
    /\ state \in [Plugins -> States]
    /\ calls \in Seq(Plugins)
    /\ next \in Nat
    /\ initialized \in Seq(Plugins)
    /\ running \in Seq(Plugins)
    /\ log \in Seq([what : {"initialize", "startup", "shutdown"}, plugin : Plugins])
    /\ quiting \in BOOLEAN
    /\ io_serv \in {"runnable", "stopped", "reset"}

(***************************************************************************)
(* Where a plugin is while the bodies of one kind run, those that are done *)
(* in done: it has left the state from if and only if its call is in       *)
(* progress or its body is done, never both and never twice; a call in     *)
(* progress needs all those nested in it; and what a plugin that is done   *)
(* requires has left the state from as well.                               *)
(***************************************************************************)
Phase(from, to, done) ==
    /\ \A i, j \in DOMAIN calls : calls[i] = calls[j] => i = j
    /\ \A i, j \in DOMAIN done : done[i] = done[j] => i = j
    /\ \A i \in DOMAIN calls, j \in DOMAIN done : calls[i] # done[j]
    /\ \A p \in Plugins :
        state[p] = to <=> \/ \E i \in DOMAIN calls : calls[i] = p
                          \/ \E i \in DOMAIN done : done[i] = p
    /\ \A i, j \in DOMAIN calls : i <= j => Needs(calls[i], calls[j])
    /\ \A i \in DOMAIN done : \A j \in DOMAIN Requires[done[i]] :
        state[Requires[done[i]][j]] = to
    /\ \A p \in Plugins : state[p] \in {from, to} =>
        \A j \in DOMAIN Requires[p] : state[Requires[p][j]] \in {from, to}

(* Where main is in its two loops over plugins. *)
PhaseInv ==
    /\ main \in {"initialize", "startup"} => next > 0
    /\ main = "initialize" =>
        /\ Phase("registered", "initialized", initialized)
        /\ running = <<>>
        /\ \A p \in Plugins : state[p] \in {"registered", "initialized"}
    /\ main = "startup" =>
        /\ Phase("initialized", "started", running)
        /\ \A p \in Plugins : state[p] \in {"registered", "initialized", "started"}

(***************************************************************************)
(* What has happened: the initialize bodies of ini, the startup bodies of  *)
(* run, and k shutdown bodies, from the end of run.                        *)
(***************************************************************************)
History(ini, run, k) ==
    /\ Len(log) = Len(ini) + Len(run) + k
    /\ k <= Len(run)
    /\ \A i \in 1 .. Len(ini) : log[i] = Ev("initialize", ini[i])
    /\ \A i \in 1 .. Len(run) : log[Len(ini) + i] = Ev("startup", run[i])
    /\ \A i \in 1 .. k : log[Len(ini) + Len(run) + i] = Ev("shutdown", run[Len(run) + 1 - i])
    /\ \A i, j \in DOMAIN ini : ini[i] = ini[j] => i = j
    /\ \A i, j \in DOMAIN run : run[i] = run[j] => i = j

HistoryInv ==
    /\ main \in {"initialize", "startup", "exec"} => History(initialized, running, 0)
    /\ main = "shutdown" =>
        next <= Len(running) /\ History(initialized, running, Len(running) - next)
    /\ main \in {"leaving", "exited", "crashed"} =>
        \E ini, run \in Seq(Plugins) : History(ini, run, Len(run))
    /\ io_serv = "reset" => main \in {"leaving", "exited", "crashed"}

(***************************************************************************)
(* The loop of startup reaches every plugin that was initialized, and only *)
(* a quit ends it early.                                                   *)
(***************************************************************************)
LoopInv ==
    /\ main = "startup" =>
        /\ \A p \in Plugins : state[p] # "registered" <=> \E i \in DOMAIN initialized : initialized[i] = p
        /\ \A i \in DOMAIN initialized : i < next => state[initialized[i]] = "started"
    /\ main = "exec" =>
        /\ \A p \in Plugins : state[p] # "stopped"
        /\ quiting \/ \A p \in Plugins : state[p] # "initialized"

BInv == BTypeOK /\ PhaseInv /\ HistoryInv /\ LoopInv /\ RequiredFirst

(* What Append does, by position. *)
LEMMA Appended ==
    ASSUME NEW S, NEW s \in Seq(S), NEW e
    PROVE  /\ Len(s) \in Nat /\ Len(Append(s, e)) = Len(s) + 1
           /\ Append(s, e)[Len(s) + 1] = e
           /\ \A i \in 1 .. Len(s) : Append(s, e)[i] = s[i]
  OBVIOUS

-----------------------------------------------------------------------------
(***************************************************************************)
(* What a plugin needs: itself, what it requires, and what those need.     *)
(***************************************************************************)
LEMMA NeedsFacts ==
    /\ \A p \in Plugins : Needs(p, p)
    /\ \A p \in Plugins : \A i \in DOMAIN Requires[p] : Needs(p, Requires[p][i])
    /\ \A p, q, r \in Plugins : Needs(p, q) /\ Needs(q, r) => Needs(p, r)
BY DEF Needs, ClosedSets

(* A plugin requires only plugins. *)
LEMMA RequiresType ==
    \A p \in Plugins : \A i \in DOMAIN Requires[p] : Requires[p][i] \in Plugins
BY PluginsAssumption

(* A set that holds what its members require holds what they need. *)
LEMMA NeedsStay ==
    ASSUME NEW S \in SUBSET Plugins,
           \A p \in S : \A i \in DOMAIN Requires[p] : Requires[p][i] \in S,
           NEW p \in S, NEW q, Needs(p, q)
    PROVE  q \in S
BY DEF Needs, ClosedSets

(* The first plugin still waiting among those that a plugin requires. *)
LEMMA FirstWaitingFacts ==
    ASSUME NEW p \in Plugins, NEW from, Waiting(p, from)
    PROVE  \E i \in DOMAIN Requires[p] :
                FirstWaiting(p, from) = Requires[p][i] /\ state[Requires[p][i]] = from
  <1> DEFINE T == {i \in DOMAIN Requires[p] : state[Requires[p][i]] = from}
  <1>1. Requires[p] \in Seq(Plugins)
    BY PluginsAssumption
  <1>2. DOMAIN Requires[p] \subseteq Nat
    BY <1>1
  <1>3. \E i \in T : \A j \in T : ~ (<<j, i>> \in OpToRel(<, Nat))
    <2>1. T \subseteq Nat /\ T # {}
      BY <1>2 DEF Waiting
    <2> QED BY <2>1, NatLessThanWellFounded, WFMin
  <1>4. PICK i \in T : \A j \in T : ~ (<<j, i>> \in OpToRel(<, Nat))
    BY <1>3
  <1>5. \A j \in 1 .. i - 1 : state[Requires[p][j]] # from
    <2> SUFFICES ASSUME NEW j \in 1 .. i - 1, state[Requires[p][j]] = from PROVE FALSE
      OBVIOUS
    <2>1. i \in 1 .. Len(Requires[p]) /\ Len(Requires[p]) \in Nat
      BY <1>1
    <2>2. j \in T /\ j < i /\ j \in Nat /\ i \in Nat
      BY <1>1, <2>1
    <2>3. <<j, i>> \in OpToRel(<, Nat)
      BY <2>2 DEF OpToRel
    <2> QED BY <1>4, <2>2, <2>3
  <1> QED BY <1>4, <1>5 DEF FirstWaiting

-----------------------------------------------------------------------------
(***************************************************************************)
(* The start of a call keeps the phase.                                    *)
(***************************************************************************)
LEMMA EnterPhase ==
    ASSUME BTypeOK, NEW from, NEW to, from # to, NEW done \in Seq(Plugins),
           Phase(from, to, done), NEW p \in Plugins, Enter(p, from, to),
           \A i \in DOMAIN calls : Needs(calls[i], p), to \in States
    PROVE  Phase(from, to, done)' /\ calls' \in Seq(Plugins) /\ state' \in [Plugins -> States]
  <1>1. /\ state \in [Plugins -> States] /\ calls \in Seq(Plugins) /\ state[p] = from
        /\ state' = [state EXCEPT ![p] = to] /\ calls' = Append(calls, p)
    BY DEF BTypeOK, Enter
  <1>2. /\ DOMAIN calls = 1 .. Len(calls) /\ DOMAIN calls' = 1 .. Len(calls) + 1
        /\ Len(calls) \in Nat
        /\ calls'[Len(calls) + 1] = p
        /\ \A i \in 1 .. Len(calls) : calls'[i] = calls[i]
    BY <1>1
  <1>3. /\ \A i \in DOMAIN calls : calls[i] # p /\ calls[i] \in Plugins
        /\ \A i \in DOMAIN done : done[i] # p /\ done[i] \in Plugins
    BY <1>1, <1>2 DEF Phase
  <1>4. /\ state'[p] = to
        /\ \A q \in Plugins : q # p => state'[q] = state[q]
    BY <1>1
  <1>5. \A i, j \in DOMAIN calls' : calls'[i] = calls'[j] => i = j
    BY <1>2, <1>3 DEF Phase
  <1>6. \A i \in DOMAIN calls', j \in DOMAIN done : calls'[i] # done[j]
    BY <1>2, <1>3 DEF Phase
  <1>7. \A q \in Plugins :
            state'[q] = to <=> \/ \E i \in DOMAIN calls' : calls'[i] = q
                               \/ \E i \in DOMAIN done : done[i] = q
    <2> TAKE q \in Plugins
    <2>1. (\E i \in DOMAIN calls' : calls'[i] = q) <=> (\E i \in DOMAIN calls : calls[i] = q) \/ q = p
      BY <1>2
    <2>2. state[q] = to <=> \/ \E i \in DOMAIN calls : calls[i] = q
                            \/ \E i \in DOMAIN done : done[i] = q
      BY DEF Phase
    <2> QED BY <1>4, <2>1, <2>2
  <1>8. \A i, j \in DOMAIN calls' : i <= j => Needs(calls'[i], calls'[j])
    <2>1. Needs(p, p)
      BY NeedsFacts
    <2> QED BY <1>2, <2>1 DEF Phase
  <1>9. \A i \in DOMAIN done : \A j \in DOMAIN Requires[done[i]] :
            state'[Requires[done[i]][j]] = to
    BY <1>3, <1>4, RequiresType DEF Phase
  <1>10. \A q \in Plugins : state'[q] \in {from, to} =>
            \A j \in DOMAIN Requires[q] : state'[Requires[q][j]] \in {from, to}
    <2>1. \A q \in Plugins : state'[q] \in {from, to} <=> state[q] \in {from, to}
      BY <1>1, <1>4
    <2> QED BY <2>1, RequiresType DEF Phase
  <1>11. Phase(from, to, done)'
    BY <1>5, <1>6, <1>7, <1>8, <1>9, <1>10 DEF Phase, Needs
  <1> QED BY <1>1, <1>11

(* A call from the loop over plugins is nested in none. *)
LEMMA LoopPhase ==
    ASSUME BTypeOK, NEW from, NEW to, from # to, NEW done \in Seq(Plugins),
           Phase(from, to, done), NEW p \in Plugins, Enter(p, from, to), calls = <<>>,
           to \in States
    PROVE  Phase(from, to, done)' /\ calls' \in Seq(Plugins) /\ state' \in [Plugins -> States]
BY EnterPhase

(* A nested call is one that all the calls in progress need. *)
LEMMA RequiredPhase ==
    ASSUME BTypeOK, NEW from, NEW to, from # to, NEW done \in Seq(Plugins),
           Phase(from, to, done), EnterRequired(from, to), to \in States
    PROVE  /\ Phase(from, to, done)' /\ calls' \in Seq(Plugins)
           /\ state' \in [Plugins -> States]
           /\ \E p \in Plugins : Enter(p, from, to)
  <1>1. calls \in Seq(Plugins) /\ calls # <<>>
    BY DEF BTypeOK, EnterRequired
  <1>2. /\ Len(calls) \in DOMAIN calls /\ Top \in Plugins
        /\ \A i \in DOMAIN calls : i <= Len(calls) /\ calls[i] \in Plugins
    BY <1>1 DEF Top
  <1>3. PICK i \in DOMAIN Requires[Top] : FirstWaiting(Top, from) = Requires[Top][i]
    BY <1>2, FirstWaitingFacts DEF EnterRequired
  <1>4. FirstWaiting(Top, from) \in Plugins /\ Needs(Top, FirstWaiting(Top, from))
    BY <1>2, <1>3, RequiresType, NeedsFacts
  <1>5. \A k \in DOMAIN calls : Needs(calls[k], Top)
    BY <1>2 DEF Phase, Top
  <1>6. \A k \in DOMAIN calls : Needs(calls[k], FirstWaiting(Top, from))
    BY <1>2, <1>4, <1>5, NeedsFacts
  <1>7. Enter(FirstWaiting(Top, from), from, to)
    BY DEF EnterRequired
  <1> HIDE DEF Phase
  <1>8. Phase(from, to, done)' /\ calls' \in Seq(Plugins) /\ state' \in [Plugins -> States]
    BY <1>4, <1>6, <1>7, EnterPhase
  <1> QED BY <1>4, <1>7, <1>8

(***************************************************************************)
(* When a body is about to run, what its plugin requires is done with all  *)
(* it needs in turn, unless it needs that plugin: those that are done and  *)
(* do not need it are closed under what they require, because a call in    *)
(* progress needs it.                                                      *)
(***************************************************************************)
LEMMA BodyFirst ==
    ASSUME BTypeOK, NEW from, NEW to, NEW done \in Seq(Plugins), Phase(from, to, done),
           ReadyForBody(from), NEW q \in NeededFirst[Top]
    PROVE  \E j \in DOMAIN done : done[j] = q
  <1> DEFINE T == {x \in Plugins : (\E j \in DOMAIN done : done[j] = x) /\ ~ Needs(x, Top)}
  <1>1. calls \in Seq(Plugins) /\ calls # <<>> /\ ~ Waiting(Top, from)
    BY DEF BTypeOK, ReadyForBody
  <1>2. Len(calls) \in DOMAIN calls /\ Top \in Plugins /\ Top = calls[Len(calls)]
    BY <1>1 DEF Top
  <1>3. \A i \in DOMAIN calls : Needs(calls[i], Top)
    <2>1. \A i \in DOMAIN calls : i <= Len(calls)
      BY <1>1
    <2> QED BY <1>2, <2>1 DEF Phase
  <1>4. \A x \in Plugins : state[x] = to /\ ~ Needs(x, Top) => x \in T
    BY <1>3 DEF Phase
  <1>5. \A x \in T : \A i \in DOMAIN Requires[x] : Requires[x][i] \in T
    <2> TAKE x \in T
    <2> TAKE i \in DOMAIN Requires[x]
    <2>1. x \in Plugins /\ Requires[x][i] \in Plugins /\ state[Requires[x][i]] = to
      BY RequiresType DEF Phase
    <2>2. ~ Needs(Requires[x][i], Top)
      BY <1>2, <2>1, NeedsFacts
    <2> QED BY <1>4, <2>1, <2>2
  <1>6. PICK i \in DOMAIN Requires[Top] : ~ Needs(Requires[Top][i], Top) /\ Needs(Requires[Top][i], q)
    BY <1>2 DEF NeededFirst
  <1>7. Requires[Top][i] \in T
    <2>1. state[Top] = to
      BY <1>2 DEF Phase
    <2>2. state[Requires[Top][i]] \in {from, to}
      BY <1>2, <2>1 DEF Phase
    <2>3. state[Requires[Top][i]] # from
      BY <1>1 DEF Waiting
    <2> QED BY <1>2, <1>4, <1>6, <2>2, <2>3, RequiresType
  <1>8. q \in T
    BY <1>5, <1>6, <1>7, NeedsStay
  <1> QED BY <1>8

(* The end of a body keeps the phase. *)
LEMMA BodyPhase ==
    ASSUME BTypeOK, NEW from, NEW to, NEW done \in Seq(Plugins), Phase(from, to, done),
           ReadyForBody(from), Return, UNCHANGED state, NEW p, p = Top
    PROVE  /\ Phase(from, to, Append(done, p))' /\ p \in Plugins
           /\ calls' \in Seq(Plugins)
  <1> DEFINE n == Len(calls)
  <1>0. PICK d : d = Append(done, p)
    OBVIOUS
  <1>1. /\ calls \in Seq(Plugins) /\ calls # <<>> /\ ~ Waiting(p, from) /\ state' = state
        /\ calls' = SubSeq(calls, 1, Len(calls) - 1)
    BY DEF BTypeOK, ReadyForBody, Return
  <1>2. /\ n \in DOMAIN calls /\ p \in Plugins /\ p = calls[n] /\ n \in Nat
        /\ DOMAIN calls = 1 .. n
    BY <1>1 DEF Top
  <1>3. /\ calls' \in Seq(Plugins) /\ DOMAIN calls' = 1 .. n - 1
        /\ \A i \in 1 .. n - 1 : calls'[i] = calls[i]
    BY <1>1, <1>2
  <1>4. /\ DOMAIN done = 1 .. Len(done) /\ Len(done) \in Nat
        /\ DOMAIN d = 1 .. Len(done) + 1
        /\ d[Len(done) + 1] = p
        /\ \A i \in 1 .. Len(done) : d[i] = done[i]
    BY <1>0, <1>2
  <1>5. state[p] = to
    BY <1>2 DEF Phase
  <1>6. \A i, j \in DOMAIN calls' : calls'[i] = calls'[j] => i = j
    BY <1>2, <1>3 DEF Phase
  <1>7. \A i, j \in DOMAIN d : d[i] = d[j] => i = j
    BY <1>2, <1>4 DEF Phase
  <1>8. \A i \in DOMAIN calls', j \in DOMAIN d : calls'[i] # d[j]
    BY <1>2, <1>3, <1>4 DEF Phase
  <1>9. \A q \in Plugins :
            state'[q] = to <=> \/ \E i \in DOMAIN calls' : calls'[i] = q
                               \/ \E i \in DOMAIN d : d[i] = q
    <2> TAKE q \in Plugins
    <2>1. (\E i \in DOMAIN d : d[i] = q) <=> (\E i \in DOMAIN done : done[i] = q) \/ q = p
      BY <1>4
    <2>2. (\E i \in DOMAIN calls' : calls'[i] = q) \/ q = p <=> \E i \in DOMAIN calls : calls[i] = q
      BY <1>2, <1>3
    <2>3. state[q] = to <=> \/ \E i \in DOMAIN calls : calls[i] = q
                            \/ \E i \in DOMAIN done : done[i] = q
      BY DEF Phase
    <2> QED BY <1>1, <2>1, <2>2, <2>3
  <1>10. \A i, j \in DOMAIN calls' : i <= j => Needs(calls'[i], calls'[j])
    BY <1>2, <1>3 DEF Phase
  <1>11. \A i \in DOMAIN d : \A j \in DOMAIN Requires[d[i]] :
            state'[Requires[d[i]][j]] = to
    <2>1. \A j \in DOMAIN Requires[p] : state[Requires[p][j]] = to
      <3>1. \A j \in DOMAIN Requires[p] : state[Requires[p][j]] \in {from, to}
        BY <1>2, <1>5 DEF Phase
      <3>2. \A j \in DOMAIN Requires[p] : state[Requires[p][j]] # from
        BY <1>1 DEF Waiting
      <3> QED BY <3>1, <3>2
    <2>2. \A i \in DOMAIN done : \A j \in DOMAIN Requires[done[i]] :
              state[Requires[done[i]][j]] = to
      BY DEF Phase
    <2> TAKE i \in DOMAIN d
    <2>3. CASE d[i] = p
      BY <1>1, <2>1, <2>3
    <2>4. CASE i \in DOMAIN done /\ d[i] = done[i]
      BY <1>1, <2>2, <2>4
    <2> QED BY <1>4, <2>3, <2>4
  <1>12. \A q \in Plugins : state'[q] \in {from, to} =>
            \A j \in DOMAIN Requires[q] : state'[Requires[q][j]] \in {from, to}
    BY <1>1 DEF Phase
  <1>13. Phase(from, to, d)'
    BY <1>6, <1>7, <1>8, <1>9, <1>10, <1>11, <1>12 DEF Phase, Needs
  <1> QED BY <1>0, <1>2, <1>3, <1>13

-----------------------------------------------------------------------------
(* At the start no plugin is more than registered and nothing has happened. *)
LEMMA InitBInv == BInit => BInv
  <1> SUFFICES ASSUME BInit PROVE BInv
    OBVIOUS
  <1>1. BTypeOK
    <2>1. /\ calls \in Seq(Plugins) /\ initialized \in Seq(Plugins) /\ running \in Seq(Plugins)
          /\ log \in Seq([what : {"initialize", "startup", "shutdown"}, plugin : Plugins])
      BY DEF BInit
    <2>2. state \in [Plugins -> States]
      BY DEF BInit, States
    <2> QED BY <2>1, <2>2 DEF BInit, BTypeOK, Places
  <1>2. PhaseInv
    BY PluginsAssumption, RequiresType DEF BInit, PhaseInv, Phase
  <1>3. HistoryInv
    <2>1. main = "initialize" /\ io_serv = "runnable"
      BY DEF BInit
    <2>2. initialized = <<>> /\ running = <<>> /\ log = <<>> /\ Len(<<>>) = 0 /\ DOMAIN <<>> = {}
      BY DEF BInit
    <2>3. History(initialized, running, 0)
      BY <2>2 DEF History
    <2> QED BY <2>1, <2>3 DEF HistoryInv
  <1>4. LoopInv /\ RequiredFirst
    BY DEF BInit, LoopInv, RequiredFirst
  <1> QED BY <1>1, <1>2, <1>3, <1>4 DEF BInv

(* Outside shutdown, what was said of the log stays true while it does not change. *)
LEMMA SameLog ==
    ASSUME HistoryInv, RequiredFirst, UNCHANGED <<main, initialized, running, log, io_serv>>,
           main # "shutdown" \/ UNCHANGED next
    PROVE  HistoryInv' /\ RequiredFirst'
  <1>1. RequiredFirst'
    BY DEF RequiredFirst, Ev
  <1>2. HistoryInv'
    BY DEF HistoryInv, History, Ev
  <1> QED BY <1>1, <1>2

(* The start of a call changes the state of one plugin. *)
LEMMA EnterStates ==
    ASSUME BTypeOK, NEW p \in Plugins, NEW from, NEW to, Enter(p, from, to)
    PROVE  /\ state[p] = from
           /\ \A q \in Plugins : state'[q] = IF q = p THEN to ELSE state[q]
BY DEF BTypeOK, Enter

(* The loop of initialize and its walk of the requirements open calls only. *)
LEMMA InitializeCalls ==
    ASSUME BInv, InitializeNext \/ InitializeRequired
    PROVE  BInv'
  <1>1. /\ main = "initialize" /\ UNCHANGED <<main, initialized, running, log, work, signalVars>>
        /\ next' \in Nat /\ next > 0 /\ next' > 0 /\ BTypeOK /\ initialized \in Seq(Plugins)
        /\ Phase("registered", "initialized", initialized)
        /\ running = <<>>
        /\ \A p \in Plugins : state[p] \in {"registered", "initialized"}
    BY DEF InitializeNext, InitializeRequired, BInv, BTypeOK, PhaseInv
  <1>2. /\ Phase("registered", "initialized", initialized)'
        /\ calls' \in Seq(Plugins) /\ state' \in [Plugins -> States]
        /\ \A p \in Plugins : state'[p] \in {"registered", "initialized"}
    <2>1. ASSUME NEW p \in Plugins, Enter(p, "registered", "initialized")
          PROVE  \A q \in Plugins : state'[q] \in {"registered", "initialized"}
      BY <1>1, <2>1, EnterStates
    <2>2. ASSUME NEW done \in Seq(Plugins), done = initialized,
                 Phase("registered", "initialized", done)'
          PROVE  Phase("registered", "initialized", initialized)'
      BY <1>1, <2>2 DEF Phase
    <2>3. PICK done \in Seq(Plugins) : done = initialized
      BY <1>1
    <2>4. Phase("registered", "initialized", done)
      BY <1>1, <2>3
    <2>5. "initialized" \in States
      BY DEF States
    <2>6. CASE InitializeRequired
      <3>1. EnterRequired("registered", "initialized")
        BY <2>6 DEF InitializeRequired
      <3>2. /\ Phase("registered", "initialized", done)' /\ calls' \in Seq(Plugins)
            /\ state' \in [Plugins -> States]
            /\ \E p \in Plugins : Enter(p, "registered", "initialized")
        BY <1>1, <2>4, <2>5, <3>1, RequiredPhase
      <3> QED BY <2>1, <2>2, <2>3, <3>2
    <2>7. CASE InitializeNext /\ state[Autostart[next]] = "registered"
      <3>1. /\ Autostart[next] \in Plugins /\ calls = <<>>
            /\ Enter(Autostart[next], "registered", "initialized")
        <4>1. next \in 1 .. Len(Autostart)
          BY <1>1, <2>7 DEF InitializeNext, BTypeOK
        <4> QED BY <2>7, <4>1, PluginsAssumption DEF InitializeNext
      <3>2. /\ Phase("registered", "initialized", done)' /\ calls' \in Seq(Plugins)
            /\ state' \in [Plugins -> States]
        BY <1>1, <2>4, <2>5, <3>1, LoopPhase
      <3> QED BY <2>1, <2>2, <2>3, <3>1, <3>2
    <2>8. CASE InitializeNext /\ state[Autostart[next]] # "registered"
      BY <1>1, <2>8 DEF InitializeNext, BTypeOK, Phase
    <2> QED BY <2>6, <2>7, <2>8
  <1>3. HistoryInv' /\ RequiredFirst'
    BY <1>1, SameLog DEF BInv, signalVars
  <1> QED BY <1>1, <1>2, <1>3 DEF BInv, BTypeOK, PhaseInv, LoopInv, signalVars

(* A body may be logged once the bodies of what its plugin needs first are. *)
LEMMA LogFirst ==
    ASSUME BTypeOK, RequiredFirst, NEW e, log' = Append(log, e),
           e.what # "shutdown" =>
               \A q \in NeededFirst[e.plugin] : \E j \in DOMAIN log : log[j] = Ev(e.what, q)
    PROVE  RequiredFirst'
  <1>1. /\ DOMAIN log' = 1 .. Len(log) + 1 /\ DOMAIN log = 1 .. Len(log) /\ Len(log) \in Nat
        /\ log'[Len(log) + 1] = e
        /\ \A i \in 1 .. Len(log) : log'[i] = log[i]
    BY DEF BTypeOK
  <1>2. ASSUME NEW i \in DOMAIN log', log'[i].what # "shutdown", NEW q \in NeededFirst[log'[i].plugin]
        PROVE  \E j \in 1 .. i - 1 : log'[j] = Ev(log'[i].what, q)
    <2>1. CASE i = Len(log) + 1
      <3>1. PICK j \in DOMAIN log : log[j] = Ev(e.what, q)
        BY <1>1, <1>2, <2>1
      <3>2. j \in 1 .. i - 1 /\ log'[j] = Ev(log'[i].what, q)
        BY <1>1, <2>1, <3>1
      <3> QED BY <3>2
    <2>2. CASE i \in DOMAIN log
      <3>1. log'[i] = log[i]
        BY <1>1, <2>2
      <3>2. PICK j \in 1 .. i - 1 : log[j] = Ev(log[i].what, q)
        BY <1>2, <2>2, <3>1 DEF RequiredFirst
      <3>3. log'[j] = log[j]
        BY <1>1, <2>2
      <3> QED BY <3>1, <3>2, <3>3
    <2> QED BY <1>1, <2>1, <2>2
  <1> QED BY <1>2 DEF RequiredFirst, Ev

(* A body of initialize is entered when all that its plugin needs is done. *)
LEMMA InitializeBodyInv ==
    ASSUME BInv, InitializeBody
    PROVE  BInv'
  <1> DEFINE p == Top
             n == Len(initialized)
  <1>1. /\ BTypeOK /\ main = "initialize" /\ main' = main /\ ReadyForBody("registered") /\ Return
        /\ UNCHANGED <<state, next, running, work, signalVars>>
        /\ initialized' = Append(initialized, p)
        /\ log' = Append(log, Ev("initialize", p))
        /\ initialized \in Seq(Plugins) /\ running = <<>> /\ next > 0
        /\ Phase("registered", "initialized", initialized)
        /\ History(initialized, running, 0) /\ RequiredFirst
        /\ \A q \in Plugins : state[q] \in {"registered", "initialized"}
    BY DEF InitializeBody, Ran, Ev, BInv, BTypeOK, PhaseInv, HistoryInv
  <1>2. PICK done \in Seq(Plugins) : done = initialized
    BY <1>1
  <1>3. PICK t : t = Top
    OBVIOUS
  <1>4. Phase("registered", "initialized", done)
    BY <1>1, <1>2
  <1>5. /\ Phase("registered", "initialized", Append(done, t))'
        /\ t \in Plugins /\ calls' \in Seq(Plugins)
    BY <1>1, <1>3, <1>4, BodyPhase
  <1>6. Phase("registered", "initialized", initialized)'
    <2>1. PICK d : d = Append(done, t)
      OBVIOUS
    <2>2. Phase("registered", "initialized", d)'
      BY <1>5, <2>1
    <2>3. initialized' = d
      BY <1>1, <1>2, <1>3, <2>1
    <2> QED BY <2>2, <2>3 DEF Phase
  <1>7. RequiredFirst'
    <2>1. ASSUME NEW q \in NeededFirst[p] PROVE \E j \in DOMAIN log : log[j] = Ev("initialize", q)
      <3>1. PICK j \in DOMAIN initialized : initialized[j] = q
        BY <1>1, <1>2, <1>4, BodyFirst
      <3>2. j \in 1 .. n /\ n \in Nat
        BY <1>1
      <3>3. j \in DOMAIN log
        BY <1>1, <3>2 DEF History, BTypeOK
      <3> QED BY <1>1, <3>1, <3>2, <3>3 DEF History
    <2>2. PICK e : e = Ev("initialize", p)
      OBVIOUS
    <2>3. e.what = "initialize" /\ e.plugin = p /\ log' = Append(log, e)
      BY <1>1, <2>2 DEF Ev
    <2>4. \A q \in NeededFirst[e.plugin] : \E j \in DOMAIN log : log[j] = Ev(e.what, q)
      BY <2>1, <2>3
    <2> QED BY <1>1, <2>3, <2>4, LogFirst
  <1>8. log' \in Seq([what : {"initialize", "startup", "shutdown"}, plugin : Plugins])
    BY <1>1, <1>3, <1>5 DEF BTypeOK, Ev
  <1>9. initialized' \in Seq(Plugins)
    BY <1>1, <1>3, <1>5
  <1>10. BTypeOK'
    BY <1>1, <1>5, <1>8, <1>9 DEF BTypeOK, signalVars
  <1>11. History(initialized, running, 0)'
    <2>1. /\ DOMAIN initialized = 1 .. n /\ n \in Nat /\ Len(initialized') = n + 1
          /\ DOMAIN initialized' = 1 .. n + 1
          /\ initialized'[n + 1] = t
          /\ \A i \in 1 .. n : initialized'[i] = initialized[i]
      BY <1>1, <1>3
    <2>2. /\ Len(log) = n /\ Len(log') = n + 1
          /\ log'[n + 1] = Ev("initialize", t)
          /\ \A i \in 1 .. n : log'[i] = log[i]
      <3>1. log' = Append(log, Ev("initialize", t)) /\ Len(log) = n
        BY <1>1, <1>3, <2>1 DEF History
      <3>2. log \in Seq([what : {"initialize", "startup", "shutdown"}, plugin : Plugins])
        BY <1>1 DEF BTypeOK
      <3> QED BY <2>1, <3>1, <3>2, Appended
    <2>3. \A i \in 1 .. n + 1 : log'[i] = Ev("initialize", initialized'[i])
      BY <1>1, <2>1, <2>2 DEF History
    <2>4. \A i, j \in DOMAIN initialized' : initialized'[i] = initialized'[j] => i = j
      BY <1>6 DEF Phase
    <2>5. running' = <<>> /\ Len(running') = 0 /\ DOMAIN running' = {}
      BY <1>1
    <2> QED BY <2>1, <2>2, <2>3, <2>4, <2>5 DEF History, Ev
  <1>12. HistoryInv'
    BY <1>1, <1>11 DEF HistoryInv, signalVars, BInv
  <1>13. PhaseInv' /\ LoopInv'
    BY <1>1, <1>6 DEF PhaseInv, LoopInv
  <1> QED BY <1>7, <1>10, <1>12, <1>13 DEF BInv

(* initialize is left with no call in progress: what it did is closed. *)
LEMMA StartupBeginInv ==
    ASSUME BInv, StartupBegin
    PROVE  BInv'
  <1>1. /\ BTypeOK /\ main = "initialize" /\ main' = "startup" /\ calls = <<>> /\ next' = 1
        /\ UNCHANGED <<state, calls, initialized, running, log, quiting, io_serv>>
        /\ Phase("registered", "initialized", initialized) /\ running = <<>>
        /\ \A p \in Plugins : state[p] \in {"registered", "initialized"}
        /\ History(initialized, running, 0) /\ RequiredFirst
    BY DEF BInv, StartupBegin, PhaseInv, HistoryInv
  <1>2. BTypeOK'
    BY <1>1 DEF BTypeOK, Places
  <1>3. \A p \in Plugins : state[p] # "registered" <=> \E i \in DOMAIN initialized : initialized[i] = p
    <2>1. DOMAIN calls = {}
      BY <1>1
    <2> QED BY <1>1, <2>1 DEF Phase
  <1>4. \A p \in Plugins : state[p] # "registered" =>
            \A j \in DOMAIN Requires[p] : state[Requires[p][j]] = "initialized"
    BY <1>1, <1>3 DEF Phase
  <1>5. DOMAIN calls' = {} /\ DOMAIN running' = {}
    BY <1>1
  <1>6. Phase("initialized", "started", running)'
    BY <1>1, <1>4, <1>5 DEF Phase
  <1>7. PhaseInv'
    BY <1>1, <1>6 DEF PhaseInv
  <1>8. LoopInv'
    <2>1. DOMAIN initialized \subseteq Nat \ {0}
      BY DEF BInv, BTypeOK
    <2> QED BY <1>1, <1>3, <2>1 DEF LoopInv
  <1>9. HistoryInv' /\ RequiredFirst'
    <2>1. RequiredFirst'
      BY <1>1 DEF RequiredFirst, Ev
    <2>2. History(initialized, running, 0)'
      BY <1>1 DEF History, Ev
    <2> QED BY <1>1, <2>1, <2>2 DEF HistoryInv, BInv
  <1> QED BY <1>2, <1>7, <1>8, <1>9 DEF BInv

(* The loop of startup and its walk of the requirements open calls only. *)
LEMMA StartupCalls ==
    ASSUME BInv, StartupNext \/ StartupRequired
    PROVE  BInv'
  <1>1. /\ main = "startup" /\ UNCHANGED <<main, initialized, running, log, work, signalVars>>
        /\ next' \in Nat /\ next > 0 /\ next' > 0 /\ BTypeOK
        /\ initialized \in Seq(Plugins) /\ running \in Seq(Plugins)
        /\ Phase("initialized", "started", running)
        /\ \A p \in Plugins : state[p] \in {"registered", "initialized", "started"}
    BY DEF StartupNext, StartupRequired, BInv, BTypeOK, PhaseInv
  <1>2. /\ Phase("initialized", "started", running)'
        /\ calls' \in Seq(Plugins) /\ state' \in [Plugins -> States]
        /\ \A p \in Plugins : /\ state'[p] \in {state[p], "started"}
                              /\ state[p] = "registered" => state'[p] = "registered"
        /\ \/ next' = next
           \/ next' = next + 1 /\ state'[initialized[next]] = "started"
    <2>1. ASSUME NEW p \in Plugins, Enter(p, "initialized", "started")
          PROVE  /\ \A q \in Plugins : /\ state'[q] \in {state[q], "started"}
                                       /\ state[q] = "registered" => state'[q] = "registered"
                 /\ state'[p] = "started"
      BY <1>1, <2>1, EnterStates
    <2>2. ASSUME NEW done \in Seq(Plugins), done = running,
                 Phase("initialized", "started", done)'
          PROVE  Phase("initialized", "started", running)'
      BY <1>1, <2>2 DEF Phase
    <2>3. PICK done \in Seq(Plugins) : done = running
      BY <1>1
    <2>4. Phase("initialized", "started", done)
      BY <1>1, <2>3
    <2>5. "started" \in States
      BY DEF States
    <2>6. CASE StartupRequired
      <3>1. EnterRequired("initialized", "started") /\ next' = next
        BY <2>6 DEF StartupRequired
      <3>2. /\ Phase("initialized", "started", done)' /\ calls' \in Seq(Plugins)
            /\ state' \in [Plugins -> States]
            /\ \E p \in Plugins : Enter(p, "initialized", "started")
        BY <1>1, <2>4, <2>5, <3>1, RequiredPhase
      <3>3. PICK p \in Plugins : Enter(p, "initialized", "started")
        BY <3>2
      <3>4. \A q \in Plugins : /\ state'[q] \in {state[q], "started"}
                               /\ state[q] = "registered" => state'[q] = "registered"
        BY <2>1, <3>3
      <3>5. Phase("initialized", "started", running)'
        BY <2>2, <2>3, <3>2
      <3> QED BY <3>1, <3>2, <3>4, <3>5
    <2>7. CASE StartupNext /\ state[initialized[next]] = "initialized"
      <3>1. /\ initialized[next] \in Plugins /\ calls = <<>> /\ next' = next + 1
            /\ Enter(initialized[next], "initialized", "started")
        <4>1. next \in 1 .. Len(initialized)
          BY <1>1, <2>7 DEF StartupNext, BTypeOK
        <4> QED BY <1>1, <2>7, <4>1 DEF StartupNext
      <3>2. /\ Phase("initialized", "started", done)' /\ calls' \in Seq(Plugins)
            /\ state' \in [Plugins -> States]
        BY <1>1, <2>4, <2>5, <3>1, LoopPhase
      <3> QED BY <2>1, <2>2, <2>3, <3>1, <3>2
    <2>8. CASE StartupNext /\ state[initialized[next]] # "initialized"
      <3>1. next \in 1 .. Len(initialized) /\ initialized[next] \in Plugins
        BY <1>1, <2>8 DEF StartupNext, BTypeOK
      <3>2. state' = state /\ calls' = calls /\ next' = next + 1
        BY <2>8 DEF StartupNext
      <3>3. state[initialized[next]] # "registered"
        BY <1>1, <3>1 DEF BInv, LoopInv
      <3> QED BY <1>1, <2>8, <3>1, <3>2, <3>3 DEF BTypeOK, Phase
    <2> QED BY <2>6, <2>7, <2>8
  <1>3. HistoryInv' /\ RequiredFirst'
    BY <1>1, SameLog DEF BInv, signalVars
  <1>4. LoopInv'
    BY <1>1, <1>2 DEF LoopInv, BInv, BTypeOK
  <1>5. PhaseInv'
    BY <1>1, <1>2 DEF PhaseInv
  <1>6. BTypeOK'
    BY <1>1, <1>2 DEF BTypeOK, signalVars
  <1> QED BY <1>3, <1>4, <1>5, <1>6 DEF BInv

(* A body of startup is entered when all that its plugin needs has started. *)
LEMMA StartupBodyInv ==
    ASSUME BInv, StartupBody
    PROVE  BInv'
  <1> DEFINE p == Top
             m == Len(initialized)
             n == Len(running)
  <1>1. /\ BTypeOK /\ main = "startup" /\ main' = main /\ ReadyForBody("initialized") /\ Return
        /\ UNCHANGED <<state, next, initialized, signalVars>>
        /\ running' = Append(running, p)
        /\ log' = Append(log, Ev("startup", p))
        /\ running \in Seq(Plugins) /\ next > 0
        /\ Phase("initialized", "started", running)
        /\ History(initialized, running, 0) /\ RequiredFirst
        /\ \A q \in Plugins : state[q] \in {"registered", "initialized", "started"}
    BY DEF StartupBody, Ran, Ev, BInv, BTypeOK, PhaseInv, HistoryInv
  <1>2. PICK done \in Seq(Plugins) : done = running
    BY <1>1
  <1>3. PICK t : t = Top
    OBVIOUS
  <1>4. Phase("initialized", "started", done)
    BY <1>1, <1>2
  <1>5. /\ Phase("initialized", "started", Append(done, t))'
        /\ t \in Plugins /\ calls' \in Seq(Plugins)
    BY <1>1, <1>3, <1>4, BodyPhase
  <1>6. Phase("initialized", "started", running)'
    <2>1. PICK d : d = Append(done, t)
      OBVIOUS
    <2>2. Phase("initialized", "started", d)'
      BY <1>5, <2>1
    <2>3. running' = d
      BY <1>1, <1>2, <1>3, <2>1
    <2> QED BY <2>2, <2>3 DEF Phase
  <1>7. /\ Len(log) = m + n /\ DOMAIN log = 1 .. m + n /\ m \in Nat /\ n \in Nat
        /\ DOMAIN running = 1 .. n /\ DOMAIN initialized = 1 .. m
    BY <1>1 DEF BTypeOK, History
  <1>8. RequiredFirst'
    <2>1. ASSUME NEW q \in NeededFirst[p] PROVE \E j \in DOMAIN log : log[j] = Ev("startup", q)
      <3>1. PICK j \in DOMAIN running : running[j] = q
        BY <1>1, <1>2, <1>4, BodyFirst
      <3>2. m + j \in DOMAIN log
        BY <1>7
      <3>3. log[m + j] = Ev("startup", q)
        BY <1>1, <1>7, <3>1 DEF History
      <3> QED BY <3>2, <3>3
    <2>2. PICK e : e = Ev("startup", p)
      OBVIOUS
    <2>3. e.what = "startup" /\ e.plugin = p /\ log' = Append(log, e)
      BY <1>1, <2>2 DEF Ev
    <2>4. \A q \in NeededFirst[e.plugin] : \E j \in DOMAIN log : log[j] = Ev(e.what, q)
      BY <2>1, <2>3
    <2> QED BY <1>1, <2>3, <2>4, LogFirst
  <1>9. BTypeOK'
    <2>1. log' \in Seq([what : {"initialize", "startup", "shutdown"}, plugin : Plugins])
      BY <1>1, <1>3, <1>5 DEF BTypeOK, Ev
    <2>2. running' \in Seq(Plugins)
      BY <1>1, <1>3, <1>5
    <2> QED BY <1>1, <1>5, <2>1, <2>2 DEF BTypeOK, signalVars
  <1>10. History(initialized, running, 0)'
    <2>1. /\ Len(running') = n + 1 /\ DOMAIN running' = 1 .. n + 1
          /\ running'[n + 1] = t
          /\ \A i \in 1 .. n : running'[i] = running[i]
      BY <1>1, <1>3
    <2>2. /\ Len(log') = m + (n + 1)
          /\ log'[m + (n + 1)] = Ev("startup", t)
          /\ \A i \in 1 .. m + n : log'[i] = log[i]
      <3>1. PICK e : e = Ev("startup", t)
        OBVIOUS
      <3>2. log' = Append(log, e)
        BY <1>1, <1>3, <3>1
      <3>3. /\ Len(log') = Len(log) + 1 /\ log'[Len(log) + 1] = e
            /\ \A i \in 1 .. Len(log) : log'[i] = log[i]
        BY <1>1, <3>2 DEF BTypeOK
      <3>4. Len(log) + 1 = m + (n + 1)
        BY <1>7
      <3> QED BY <1>7, <3>1, <3>3, <3>4
    <2>3. \A i \in 1 .. n + 1 : log'[m + i] = Ev("startup", running'[i])
      <3> TAKE i \in 1 .. n + 1
      <3>1. CASE i = n + 1
        BY <2>1, <2>2, <3>1
      <3>2. CASE i \in 1 .. n
        <4>1. m + i \in 1 .. m + n
          BY <1>7, <3>2
        <4> QED BY <1>1, <2>1, <2>2, <3>2, <4>1 DEF History
      <3> QED BY <1>7, <3>1, <3>2
    <2>4. \A i \in 1 .. m : log'[i] = Ev("initialize", initialized[i])
      <3> TAKE i \in 1 .. m
      <3>1. i \in 1 .. m + n
        BY <1>7
      <3> QED BY <1>1, <2>2, <3>1 DEF History
    <2>5. \A i, j \in DOMAIN running' : running'[i] = running'[j] => i = j
      BY <1>6 DEF Phase
    <2>6. \A i, j \in DOMAIN initialized : initialized[i] = initialized[j] => i = j
      BY <1>1 DEF History
    <2>7. initialized' = initialized
      BY <1>1
    <2> QED BY <1>7, <2>1, <2>2, <2>3, <2>4, <2>5, <2>6, <2>7 DEF History, Ev
  <1>11. HistoryInv'
    BY <1>1, <1>10 DEF HistoryInv, signalVars, BInv
  <1>12. PhaseInv' /\ LoopInv'
    BY <1>1, <1>6 DEF PhaseInv, LoopInv, BInv
  <1> QED BY <1>8, <1>9, <1>11, <1>12 DEF BInv

(* The steps that only move main on, or end the program. *)
LEMMA MoveInv ==
    ASSUME BInv, \/ InitializeDeclines \/ InitializeThrows \/ StartupThrows \/ StartupEnd
                 \/ ExecReturns \/ Leave
    PROVE  BInv'
  <1>1. /\ UNCHANGED <<state, initialized, running, log, quiting, io_serv>>
        /\ BTypeOK /\ HistoryInv /\ LoopInv /\ RequiredFirst
    BY DEF BInv, InitializeDeclines, InitializeThrows, StartupThrows, StartupEnd,
       ExecReturns, Leave, signalVars
  <1>2. BTypeOK'
    <2>1. /\ calls' \in {calls, <<>>} /\ next' \in {next, Len(running)} /\ main' \in Places
      BY DEF InitializeDeclines, InitializeThrows, StartupThrows, StartupEnd, ExecReturns,
         Leave, Places
    <2>2. Len(running) \in Nat /\ <<>> \in Seq(Plugins)
      BY <1>1 DEF BTypeOK
    <2> QED BY <1>1, <2>1, <2>2 DEF BTypeOK
  <1>3. RequiredFirst'
    BY <1>1 DEF RequiredFirst, Ev
  <1>4. PhaseInv'
    BY DEF PhaseInv, InitializeDeclines, InitializeThrows, StartupThrows, StartupEnd,
       ExecReturns, Leave
  <1>5. LoopInv'
    <2>1. CASE StartupEnd
      <3>1. /\ main = "startup" /\ main' = "exec" /\ UNCHANGED <<state, next, quiting>>
            /\ quiting \/ next > Len(initialized)
        BY <2>1 DEF StartupEnd, signalVars
      <3>2. \A p \in Plugins : state[p] # "stopped"
        BY <3>1 DEF BInv, PhaseInv
      <3>3. ASSUME next > Len(initialized), NEW p \in Plugins PROVE state[p] # "initialized"
        <4>1. \A i \in DOMAIN initialized : i < next
          BY <1>1, <3>3 DEF BTypeOK
        <4> QED BY <1>1, <3>1, <4>1 DEF LoopInv
      <3> QED BY <3>1, <3>2, <3>3 DEF LoopInv
    <2>2. CASE ~ StartupEnd
      BY <2>2 DEF LoopInv, InitializeDeclines, InitializeThrows, StartupThrows, ExecReturns,
         Leave
    <2> QED BY <2>1, <2>2
  <1>6. HistoryInv'
    <2>1. Len(running) \in Nat /\ Len(running) - Len(running) = 0
      BY <1>1 DEF BTypeOK
    <2>2. CASE InitializeDeclines \/ InitializeThrows
      <3>1. main = "initialize" /\ main' = "exited"
        BY <2>2 DEF InitializeDeclines, InitializeThrows
      <3>2. running = <<>> /\ Len(running) = 0
        BY <3>1 DEF BInv, PhaseInv
      <3>3. History(initialized, running, Len(running))
        BY <1>1, <3>1, <3>2 DEF HistoryInv
      <3>4. PICK ini \in Seq(Plugins), run \in Seq(Plugins) : History(ini, run, Len(run))
        BY <1>1, <3>3 DEF BTypeOK
      <3>5. History(ini, run, Len(run))'
        BY <1>1, <3>4 DEF History, Ev
      <3> QED BY <1>1, <3>1, <3>5 DEF HistoryInv
    <2>3. CASE StartupThrows \/ ExecReturns
      <3>1. main \in {"startup", "exec"} /\ main' = "shutdown" /\ next' = Len(running)
        BY <2>3 DEF StartupThrows, ExecReturns
      <3>2. History(initialized, running, 0)
        BY <1>1, <3>1 DEF HistoryInv
      <3>3. History(initialized, running, 0)'
        BY <1>1, <3>2 DEF History, Ev
      <3>4. (Len(running) - next)' = 0 /\ next' <= Len(running')
        BY <1>1, <2>1, <3>1
      <3>5. io_serv # "reset"
        BY <1>1, <3>1 DEF HistoryInv
      <3> QED BY <1>1, <3>1, <3>3, <3>4, <3>5 DEF HistoryInv
    <2>4. CASE StartupEnd
      <3>1. main = "startup" /\ main' = "exec"
        BY <2>4 DEF StartupEnd
      <3>2. History(initialized, running, 0)'
        BY <1>1, <3>1 DEF HistoryInv, History, Ev
      <3> QED BY <1>1, <3>1, <3>2 DEF HistoryInv
    <2>5. CASE Leave
      <3>1. main = "leaving" /\ main' = "exited"
        BY <2>5 DEF Leave
      <3>2. PICK ini \in Seq(Plugins), run \in Seq(Plugins) : History(ini, run, Len(run))
        BY <1>1, <3>1 DEF HistoryInv
      <3>3. History(ini, run, Len(run))'
        BY <1>1, <3>2 DEF History, Ev
      <3> QED BY <1>1, <3>1, <3>3 DEF HistoryInv
    <2> QED BY <2>2, <2>3, <2>4, <2>5
  <1> QED BY <1>2, <1>3, <1>4, <1>5, <1>6 DEF BInv

(* shutdown takes the running plugins from the end. *)
LEMMA ShutdownNextInv ==
    ASSUME BInv, ShutdownNext
    PROVE  BInv'
  <1> DEFINE m == Len(initialized)
             n == Len(running)
             k == n - next
  <1>1. /\ BTypeOK /\ main = "shutdown" /\ main' = main /\ next > 0 /\ next' = next - 1
        /\ UNCHANGED <<calls, initialized, running, signalVars>>
        /\ state' = [state EXCEPT ![running[next]] = "stopped"]
        /\ log' = Append(log, Ev("shutdown", running[next]))
        /\ next <= n /\ History(initialized, running, k) /\ RequiredFirst
    BY DEF ShutdownNext, Ran, Ev, BInv, HistoryInv
  <1>2. /\ m \in Nat /\ n \in Nat /\ next \in 1 .. n /\ k \in Nat /\ k < n
        /\ Len(log) = m + n + k /\ running[next] \in Plugins
    BY <1>1 DEF BTypeOK, History
  <1>3. PICK e : e = Ev("shutdown", running[next])
    OBVIOUS
  <1>4. /\ log' \in Seq([what : {"initialize", "startup", "shutdown"}, plugin : Plugins])
        /\ Len(log') = Len(log) + 1 /\ log'[Len(log) + 1] = e
        /\ \A i \in 1 .. Len(log) : log'[i] = log[i]
    <2>1. e \in [what : {"initialize", "startup", "shutdown"}, plugin : Plugins]
      BY <1>2, <1>3 DEF Ev
    <2> QED BY <1>1, <1>3, <2>1 DEF BTypeOK
  <1>5. BTypeOK'
    <2>1. state' \in [Plugins -> States]
      BY <1>1, <1>2 DEF BTypeOK, States
    <2> QED BY <1>1, <1>2, <1>4, <2>1 DEF BTypeOK, signalVars
  <1>6. RequiredFirst'
    BY <1>1, <1>3, LogFirst DEF Ev
  <1>7. History(initialized, running, Len(running) - next)'
    <2>1. /\ (Len(running) - next)' = k + 1 /\ initialized' = initialized /\ running' = running
          /\ Len(log') = m + n + (k + 1)
          /\ log'[m + n + (k + 1)] = Ev("shutdown", running[n + 1 - (k + 1)])
      <3>1. n - (next - 1) = k + 1 /\ Len(log) + 1 = m + n + (k + 1) /\ n + 1 - (k + 1) = next
        BY <1>1, <1>2
      <3> QED BY <1>1, <1>3, <1>4, <3>1
    <2>2. \A i \in 1 .. m : log'[i] = Ev("initialize", initialized[i])
      <3> TAKE i \in 1 .. m
      <3>1. i \in 1 .. Len(log)
        BY <1>2
      <3> QED BY <1>1, <1>4, <3>1 DEF History
    <2>3. \A i \in 1 .. n : log'[m + i] = Ev("startup", running[i])
      <3> TAKE i \in 1 .. n
      <3>1. m + i \in 1 .. Len(log)
        BY <1>2
      <3> QED BY <1>1, <1>4, <3>1 DEF History
    <2>4. \A i \in 1 .. k + 1 : log'[m + n + i] = Ev("shutdown", running[n + 1 - i])
      <3> TAKE i \in 1 .. k + 1
      <3>1. CASE i = k + 1
        BY <2>1, <3>1
      <3>2. CASE i \in 1 .. k
        <4>1. m + n + i \in 1 .. Len(log)
          BY <1>2, <3>2
        <4> QED BY <1>1, <1>4, <3>2, <4>1 DEF History
      <3> QED BY <1>2, <3>1, <3>2
    <2>5. k + 1 <= n
      BY <1>2
    <2>6. /\ \A i, j \in DOMAIN initialized : initialized[i] = initialized[j] => i = j
          /\ \A i, j \in DOMAIN running : running[i] = running[j] => i = j
      BY <1>1 DEF History
    <2> QED BY <2>1, <2>2, <2>3, <2>4, <2>5, <2>6 DEF History, Ev
  <1>8. HistoryInv'
    BY <1>1, <1>2, <1>7 DEF HistoryInv, signalVars, BInv
  <1>9. PhaseInv' /\ LoopInv'
    BY <1>1 DEF PhaseInv, LoopInv
  <1> QED BY <1>5, <1>6, <1>8, <1>9 DEF BInv

(* Clearing the two lists leaves the whole history in the log. *)
LEMMA ShutdownClearInv ==
    ASSUME BInv, ShutdownClear
    PROVE  BInv'
  <1>1. /\ BTypeOK /\ main = "shutdown" /\ main' = "leaving" /\ next = 0
        /\ UNCHANGED <<state, calls, next, log, quiting>>
        /\ running' = <<>> /\ initialized' = <<>> /\ io_serv' = "reset"
        /\ History(initialized, running, Len(running) - next) /\ RequiredFirst
    BY DEF ShutdownClear, BInv, HistoryInv
  <1>2. BTypeOK'
    <2>1. running' \in Seq(Plugins) /\ initialized' \in Seq(Plugins)
      BY <1>1
    <2> QED BY <1>1, <2>1 DEF BTypeOK, Places
  <1>3. Len(running) - next = Len(running)
    BY <1>1 DEF BTypeOK
  <1>4. PICK ini \in Seq(Plugins), run \in Seq(Plugins) : History(ini, run, Len(run))
    BY <1>1, <1>3 DEF BTypeOK
  <1>5. History(ini, run, Len(run))'
    BY <1>1, <1>4 DEF History, Ev
  <1>6. HistoryInv'
    BY <1>1, <1>5 DEF HistoryInv
  <1>7. RequiredFirst'
    BY <1>1 DEF RequiredFirst, Ev
  <1> QED BY <1>1, <1>2, <1>6, <1>7 DEF BInv, PhaseInv, LoopInv

(* The signal thread only sets flags, or finds what shutdown has reset. *)
LEMMA SignalInv ==
    ASSUME BInv, QuitStops \/ (\E s \in Signals : Signal(s)) \/ UNCHANGED bvars
    PROVE  BInv'
  <1>1. /\ UNCHANGED <<state, calls, next, initialized, running, log>>
        /\ BTypeOK /\ HistoryInv /\ PhaseInv /\ LoopInv /\ RequiredFirst
        /\ \/ main' = main
           \/ io_serv = "reset" /\ main' = "crashed"
        /\ \/ io_serv' = io_serv
           \/ io_serv # "reset" /\ io_serv' = "stopped"
        /\ quiting' = quiting \/ quiting' = TRUE
    BY DEF BInv, QuitStops, Signal, bvars, signalVars
  <1>2. BTypeOK'
    BY <1>1 DEF BTypeOK, Places
  <1>3. RequiredFirst'
    BY <1>1 DEF RequiredFirst, Ev
  <1>4. CASE main' = main
    <2>1. HistoryInv'
      <3>1. \A ini, run, k : History(ini, run, k)' <=> History(ini, run, k)
        BY <1>1 DEF History, Ev
      <3> QED BY <1>1, <1>4, <3>1 DEF HistoryInv
    <2>2. PhaseInv'
      BY <1>1, <1>4 DEF PhaseInv, Phase
    <2>3. LoopInv'
      BY <1>1, <1>4 DEF LoopInv
    <2> QED BY <1>2, <1>3, <2>1, <2>2, <2>3 DEF BInv
  <1>5. CASE io_serv = "reset" /\ main' = "crashed"
    <2>1. PICK ini \in Seq(Plugins), run \in Seq(Plugins) : History(ini, run, Len(run))
      BY <1>1, <1>5 DEF HistoryInv
    <2>2. History(ini, run, Len(run))'
      BY <1>1, <2>1 DEF History, Ev
    <2>3. HistoryInv'
      BY <1>5, <2>2 DEF HistoryInv
    <2> QED BY <1>2, <1>3, <1>5, <2>3 DEF BInv, PhaseInv, LoopInv
  <1> QED BY <1>1, <1>4, <1>5

(* Every step of the life cycle keeps its invariant. *)
LEMMA NextBInv == BInv /\ [BNext]_bvars => BInv'
BY InitializeCalls, InitializeBodyInv, StartupBeginInv, StartupCalls, StartupBodyInv,
   MoveInv, ShutdownNextInv, ShutdownClearInv, SignalInv DEF BNext, MainStep

-----------------------------------------------------------------------------
(***************************************************************************)
(* The history of an application implies what the runs check of it.        *)
(***************************************************************************)

(* Counting from the other end stays within. *)
LEMMA MirrorIn ==
    ASSUME NEW n \in Nat, NEW k \in Nat, k <= n, NEW x \in 1 .. k
    PROVE  n + 1 - x \in 1 .. n
OBVIOUS

(* The order of the bodies of a history. *)
LEMMA HistoryOrder ==
    ASSUME NEW ini \in Seq(Plugins), NEW run \in Seq(Plugins), NEW k \in Nat, BTypeOK,
           History(ini, run, k)
    PROVE  /\ OnceInOrder
           /\ \A i, j \in DOMAIN log :
                i < j /\ log[i].what = "shutdown" /\ log[j].what = "shutdown" =>
                    Before(Ev("startup", log[j].plugin), Ev("startup", log[i].plugin))
           /\ k = Len(run) => \A p \in Plugins :
                Happened(Ev("startup", p)) <=> Happened(Ev("shutdown", p))
  <1> DEFINE m == Len(ini)
             n == Len(run)
  <1>1. /\ m \in Nat /\ n \in Nat /\ k <= n /\ DOMAIN log = 1 .. m + n + k
        /\ DOMAIN ini = 1 .. m /\ DOMAIN run = 1 .. n
    BY DEF BTypeOK, History
  <1>2. \A i \in 1 .. m : log[i] = Ev("initialize", ini[i])
    BY DEF History
  <1>3. \A i \in 1 .. n : log[m + i] = Ev("startup", run[i])
    BY DEF History
  <1>4. \A i \in 1 .. k : log[m + n + i] = Ev("shutdown", run[n + 1 - i])
    BY DEF History
  <1>5. /\ \A i, j \in 1 .. m : ini[i] = ini[j] => i = j
        /\ \A i, j \in 1 .. n : run[i] = run[j] => i = j
    BY <1>1 DEF History
  <1>6. \A what, p : Ev(what, p).what = what /\ Ev(what, p).plugin = p
    BY DEF Ev
  <1>7. ASSUME NEW i \in DOMAIN log
        PROVE  \/ i \in 1 .. m /\ log[i] = Ev("initialize", ini[i])
               \/ i - m \in 1 .. n /\ log[i] = Ev("startup", run[i - m])
               \/ i - (m + n) \in 1 .. k /\ log[i] = Ev("shutdown", run[n + 1 - (i - (m + n))])
    <2>1. CASE i \in 1 .. m
      BY <1>2, <2>1
    <2>2. CASE i - m \in 1 .. n
      <3>1. m + (i - m) = i
        BY <1>1
      <3> QED BY <1>3, <2>2, <3>1
    <2>3. CASE i - (m + n) \in 1 .. k
      <3>1. m + n + (i - (m + n)) = i
        BY <1>1
      <3> QED BY <1>4, <2>3, <3>1
    <2> QED BY <1>1, <2>1, <2>2, <2>3
  <1>8. ASSUME NEW i \in DOMAIN log
        PROVE  /\ log[i].what = "initialize" => i \in 1 .. m /\ log[i].plugin = ini[i]
               /\ log[i].what = "startup" => i - m \in 1 .. n /\ log[i].plugin = run[i - m]
               /\ log[i].what = "shutdown" =>
                    i - (m + n) \in 1 .. k /\ log[i].plugin = run[n + 1 - (i - (m + n))]
               /\ log[i].what \in {"initialize", "startup", "shutdown"}
    BY <1>6, <1>7
  <1>9. OnceInOrder
    <2>1. ASSUME NEW i \in DOMAIN log, NEW j \in DOMAIN log, log[i] = log[j] PROVE i = j
      <3>1. CASE log[i].what = "initialize"
        BY <1>5, <1>8, <2>1, <3>1
      <3>2. CASE log[i].what = "startup"
        <4>1. i - m = j - m
          BY <1>5, <1>8, <2>1, <3>2
        <4> QED BY <1>1, <4>1
      <3>3. CASE log[i].what = "shutdown"
        <4>1. /\ i - (m + n) \in 1 .. k /\ j - (m + n) \in 1 .. k
              /\ run[n + 1 - (i - (m + n))] = run[n + 1 - (j - (m + n))]
          BY <1>8, <2>1, <3>3
        <4>2. n + 1 - (i - (m + n)) \in 1 .. n /\ n + 1 - (j - (m + n)) \in 1 .. n
          BY <1>1, <4>1, MirrorIn
        <4>3. n + 1 - (i - (m + n)) = n + 1 - (j - (m + n))
          BY <1>5, <4>1, <4>2
        <4> QED BY <1>1, <4>3
      <3> QED BY <1>8, <3>1, <3>2, <3>3
    <2>2. ASSUME NEW i \in DOMAIN log, NEW j \in DOMAIN log,
                 log[i].what = "startup", log[j].what = "initialize"
          PROVE  j < i
      <3>1. i - m \in 1 .. n /\ j \in 1 .. m
        BY <1>8, <2>2
      <3> QED BY <1>1, <3>1
    <2> QED BY <2>1, <2>2 DEF OnceInOrder
  <1>10. ASSUME NEW i \in DOMAIN log, NEW j \in DOMAIN log, i < j,
                log[i].what = "shutdown", log[j].what = "shutdown"
         PROVE  Before(Ev("startup", log[j].plugin), Ev("startup", log[i].plugin))
    <2> DEFINE a == n + 1 - (i - (m + n))
               b == n + 1 - (j - (m + n))
    <2>1. /\ i - (m + n) \in 1 .. k /\ j - (m + n) \in 1 .. k
          /\ log[i].plugin = run[a] /\ log[j].plugin = run[b]
      BY <1>8, <1>10
    <2>2. a \in 1 .. n /\ b \in 1 .. n /\ b < a
      <3>1. a \in 1 .. n /\ b \in 1 .. n
        BY <1>1, <2>1, MirrorIn
      <3>2. b < a
        BY <1>1, <1>10
      <3> QED BY <3>1, <3>2
    <2> HIDE DEF a, b
    <2>3. m + b \in DOMAIN log /\ m + a \in DOMAIN log /\ m + b < m + a
      BY <1>1, <2>2
    <2>4. log[m + b] = Ev("startup", run[b]) /\ log[m + a] = Ev("startup", run[a])
      BY <1>3, <2>2
    <2> QED BY <2>1, <2>3, <2>4 DEF Before
  <1>11. ASSUME k = n, NEW p \in Plugins
         PROVE  Happened(Ev("startup", p)) <=> Happened(Ev("shutdown", p))
    <2>1. ASSUME Happened(Ev("startup", p)) PROVE Happened(Ev("shutdown", p))
      <3>1. PICK i \in DOMAIN log : log[i] = Ev("startup", p)
        BY <2>1 DEF Happened
      <3>2. i - m \in 1 .. n /\ p = run[i - m]
        BY <1>6, <1>8, <3>1
      <3>3. PICK a \in 1 .. n : p = run[a]
        BY <3>2
      <3>4. n + 1 - a \in 1 .. k /\ n + 1 - (n + 1 - a) = a
        BY <1>1, <1>11
      <3>5. log[m + n + (n + 1 - a)] = Ev("shutdown", p)
        BY <1>4, <3>3, <3>4
      <3>6. m + n + (n + 1 - a) \in DOMAIN log
        BY <1>1, <3>4
      <3> QED BY <3>5, <3>6 DEF Happened
    <2>2. ASSUME Happened(Ev("shutdown", p)) PROVE Happened(Ev("startup", p))
      <3>1. PICK i \in DOMAIN log : log[i] = Ev("shutdown", p)
        BY <2>2 DEF Happened
      <3>2. i - (m + n) \in 1 .. k /\ p = run[n + 1 - (i - (m + n))]
        BY <1>6, <1>8, <3>1
      <3>3. n + 1 - (i - (m + n)) \in 1 .. n
        BY <1>1, <3>2
      <3>4. PICK a \in 1 .. n : p = run[a]
        BY <3>2, <3>3
      <3>5. m + a \in DOMAIN log /\ log[m + a] = Ev("startup", p)
        BY <1>1, <1>3, <3>4
      <3> QED BY <3>5 DEF Happened
    <2> QED BY <2>1, <2>2
  <1> QED BY <1>9, <1>10, <1>11

(* The invariant of the life cycle implies what the runs check of it. *)
LEMMA BInvImplies == BInv => OnceInOrder /\ ShutdownReversed /\ RequiredFirst
  <1> SUFFICES ASSUME BInv PROVE OnceInOrder /\ ShutdownReversed
    BY DEF BInv
  <1>1. BTypeOK /\ HistoryInv
    BY DEF BInv
  <1>2. CASE main \in {"initialize", "startup", "exec"}
    <2>1. /\ initialized \in Seq(Plugins) /\ running \in Seq(Plugins)
          /\ History(initialized, running, 0)
      BY <1>1, <1>2 DEF BTypeOK, HistoryInv
    <2> QED BY <1>1, <1>2, <2>1, HistoryOrder DEF ShutdownReversed
  <1>3. CASE main = "shutdown"
    <2>1. /\ initialized \in Seq(Plugins) /\ running \in Seq(Plugins)
          /\ Len(running) - next \in Nat
          /\ History(initialized, running, Len(running) - next)
      BY <1>1, <1>3 DEF BTypeOK, HistoryInv
    <2> QED BY <1>1, <1>3, <2>1, HistoryOrder DEF ShutdownReversed
  <1>4. CASE main \in {"leaving", "exited", "crashed"}
    <2>1. PICK ini \in Seq(Plugins), run \in Seq(Plugins) : History(ini, run, Len(run))
      BY <1>1, <1>4 DEF HistoryInv
    <2>2. Len(run) \in Nat
      OBVIOUS
    <2> QED BY <1>1, <2>1, <2>2, HistoryOrder DEF ShutdownReversed
  <1> QED BY <1>1, <1>2, <1>3, <1>4 DEF BTypeOK, Places

(***************************************************************************)
(* The channel adds nothing to the life of the application: each of its    *)
(* steps is one of AppBase or leaves the application alone.                *)
(***************************************************************************)
LEMMA BusStep == [BusNext]_<<bvars, busVars>> => [BNext]_bvars
BY DEF BusNext, BusMainStep, Lifecycle, BusExecReturns, BusShutdownClear, DeliverBegin,
   DeliverCall, DeliverEnd, Subscribe, Unsubscribe, Publish, BNext, MainStep

(* The safety part of AppBase is implemented by the application with its channel. *)
THEOREM BusImplementsBase == BusSpec => BInit /\ [][BNext]_bvars
  <1>1. BusInit => BInit
    BY DEF BusInit
  <1> QED BY <1>1, BusStep, PTL DEF BusSpec

(* The invariant of the life of an application, for the application with its channel. *)
THEOREM LifeInvariant == BusSpec => []BInv
  <1>1. BusInit => BInv
    BY InitBInv DEF BusInit
  <1>2. BInv /\ [BusNext]_<<bvars, busVars>> => BInv'
    BY NextBInv, BusStep
  <1> QED BY <1>1, <1>2, PTL DEF BusSpec

(***************************************************************************)
(* Each plugin body runs at most once, the initialize bodies before the    *)
(* startup bodies.                                                         *)
(***************************************************************************)
THEOREM BodiesOnceInOrder == BusSpec => []OnceInOrder
BY LifeInvariant, BInvImplies, PTL

(***************************************************************************)
(* What a plugin requires, with all it needs, is initialized and started   *)
(* before it, except through one that needs that plugin.                   *)
(***************************************************************************)
THEOREM RequiredAlwaysFirst == BusSpec => []RequiredFirst
BY LifeInvariant, BInvImplies, PTL

(***************************************************************************)
(* Plugins are shut down in the reverse of the order they started in, and  *)
(* in the end exactly those that started.                                  *)
(***************************************************************************)
THEOREM ShutdownAlwaysReversed == BusSpec => []ShutdownReversed
BY LifeInvariant, BInvImplies, PTL

-----------------------------------------------------------------------------
(***************************************************************************)
(* The channel.                                                            *)
(***************************************************************************)
SlotType == [owner : Users, connected : BOOLEAN, since : Nat, heard : Seq(Nat)]

BusType ==
    /\ slots \in Seq(SlotType)
    /\ handle \in [Users -> Nat]
    /\ published \in Nat
    /\ posted \in Seq(Nat)
    /\ round \in [msg : Nat, now : Nat, todo : SUBSET Nat]
    /\ round.todo \subseteq DOMAIN slots
    /\ round.now # 0 => round.now \in DOMAIN slots

(***************************************************************************)
(* Messages wait in the order they were published, after the one that is   *)
(* being delivered; and what a slot has heard comes before all those, and  *)
(* before the one being delivered if the slot is still to be called.       *)
(***************************************************************************)
OrderInv ==
    /\ round.msg <= published
    /\ \A j, k \in DOMAIN posted : j < k => posted[j] < posted[k]
    /\ \A k \in DOMAIN posted : round.msg < posted[k] /\ posted[k] <= published
    /\ \A i \in DOMAIN slots : \A j \in DOMAIN slots[i].heard :
        /\ slots[i].heard[j] <= published
        /\ \A k \in DOMAIN posted : slots[i].heard[j] < posted[k]
        /\ i \in round.todo => slots[i].heard[j] < round.msg

(* A handle is only moved to a later slot. *)
HandleInv == \A i \in Connected : i <= handle[slots[i].owner]

(* Only plugins that are at least initialized have subscribed. *)
OwnerInv ==
    main \in {"initialize", "startup", "exec"} =>
        \A i \in DOMAIN slots : state[slots[i].owner] # "registered"

BusInv == BusType /\ OrderInv /\ HeardInOrder /\ NoneMissed /\ HandleInv /\ OwnerInv
             /\ OnlyOverwrittenLeft

(* The bus starts without slots and without messages. *)
LEMMA InitBusInv == BusInit => BusInv
  <1> SUFFICES ASSUME BusInit PROVE BusInv
    OBVIOUS
  <1>1. /\ slots = <<>> /\ DOMAIN slots = {} /\ posted = <<>> /\ DOMAIN posted = {}
        /\ published = 0 /\ round = Idle /\ handle = [p \in Users |-> 0]
    BY DEF BusInit
  <1>2. round.msg = 0 /\ round.now = 0 /\ round.todo = {}
    BY <1>1 DEF Idle
  <1>3. BusType
    <2>1. slots \in Seq(SlotType) /\ posted \in Seq(Nat)
      BY <1>1
    <2>2. round \in [msg : Nat, now : Nat, todo : SUBSET Nat]
      BY <1>1 DEF Idle
    <2> QED BY <1>1, <1>2, <2>1, <2>2 DEF BusType
  <1>4. Connected = {}
    BY <1>1 DEF Connected
  <1> QED BY <1>1, <1>2, <1>3, <1>4
          DEF BusInv, OrderInv, HeardInOrder, NoneMissed, HandleInv, OwnerInv, OnlyOverwrittenLeft

(* The life of the application never takes a plugin back to registered, or main back. *)
LEMMA LifeForward ==
    ASSUME BInv, [BNext]_bvars
    PROVE  /\ \A p \in Plugins : state[p] # "registered" => state'[p] # "registered"
           /\ main' \in {"initialize", "startup", "exec"} => main \in {"initialize", "startup", "exec"}
           /\ main' = "leaving" => main = "leaving" \/ ShutdownClear
  <1>1. state \in [Plugins -> States]
    BY DEF BInv, BTypeOK
  <1>2. ASSUME NEW q, NEW to, to # "registered", state' = [state EXCEPT ![q] = to]
        PROVE  \A p \in Plugins : state[p] # "registered" => state'[p] # "registered"
    BY <1>1, <1>2
  <1>3. \A p \in Plugins : state[p] # "registered" => state'[p] # "registered"
    <2>1. CASE InitializeNext \/ InitializeRequired \/ StartupNext \/ StartupRequired \/ ShutdownNext
      BY <1>2, <2>1 DEF InitializeNext, InitializeRequired, StartupNext, StartupRequired,
         ShutdownNext, EnterRequired, Enter
    <2>2. CASE ~ (InitializeNext \/ InitializeRequired \/ StartupNext \/ StartupRequired \/ ShutdownNext)
      <3>1. state' = state
        BY <2>2 DEF BNext, MainStep, bvars, InitializeBody, InitializeDeclines, InitializeThrows,
           StartupBegin, StartupBody, StartupThrows, StartupEnd, ExecReturns, ShutdownClear,
           Leave, QuitStops, Signal
      <3> QED BY <3>1
    <2> QED BY <2>1, <2>2
  <1>4. main' \in {"initialize", "startup", "exec"} => main \in {"initialize", "startup", "exec"}
    BY DEF BNext, MainStep, bvars, InitializeNext, InitializeRequired, InitializeBody,
       InitializeDeclines, InitializeThrows, StartupBegin, StartupNext, StartupRequired,
       StartupBody, StartupThrows, StartupEnd, ExecReturns, ShutdownNext, ShutdownClear,
       Leave, QuitStops, Signal
  <1>5. main' = "leaving" => main = "leaving" \/ ShutdownClear
    BY DEF BNext, MainStep, bvars, InitializeNext, InitializeRequired, InitializeBody,
       InitializeDeclines, InitializeThrows, StartupBegin, StartupNext, StartupRequired,
       StartupBody, StartupThrows, StartupEnd, ExecReturns, ShutdownNext,
       Leave, QuitStops, Signal
  <1> QED BY <1>3, <1>4, <1>5

(* What the type says of a slot. *)
LEMMA SlotFacts ==
    ASSUME BusType
    PROVE  /\ DOMAIN slots = 1 .. Len(slots) /\ Len(slots) \in Nat
           /\ \A i \in DOMAIN slots :
                /\ i \in Nat /\ slots[i] \in SlotType
                /\ slots[i].owner \in Users /\ slots[i].owner \in Plugins
                /\ slots[i].connected \in BOOLEAN
                /\ slots[i].since \in Nat /\ slots[i].heard \in Seq(Nat)
  <1>1. slots \in Seq(SlotType)
    BY DEF BusType
  <1>2. DOMAIN slots = 1 .. Len(slots) /\ Len(slots) \in Nat
    BY <1>1
  <1>3. \A i \in DOMAIN slots : i \in Nat /\ slots[i] \in SlotType
    BY <1>1
  <1> QED BY <1>2, <1>3, BusAssumption DEF SlotType

(* The steps of the application that the channel does not see. *)
LEMMA LifeBusInv ==
    ASSUME BInv, BusInv, [BNext]_bvars, UNCHANGED busVars, main' = "leaving" => main = "leaving"
    PROVE  BusInv'
  <1>1. UNCHANGED <<slots, handle, published, posted, round>>
    BY DEF busVars
  <1>2. BusType' /\ OrderInv' /\ HeardInOrder' /\ NoneMissed' /\ HandleInv'
    BY <1>1 DEF BusInv, BusType, OrderInv, HeardInOrder, NoneMissed, HandleInv, Connected, Contains
  <1>3. OnlyOverwrittenLeft'
    BY <1>1 DEF BusInv, OnlyOverwrittenLeft, Connected
  <1>4. OwnerInv'
    <2>1. \A i \in DOMAIN slots : slots[i].owner \in Plugins
      BY SlotFacts DEF BusInv
    <2> QED BY <1>1, <2>1, LifeForward DEF BusInv, OwnerInv
  <1> QED BY <1>2, <1>3, <1>4 DEF BusInv

(* Who runs code is at least initialized, and main has not left shutdown. *)
LEMMA InCodeFacts ==
    ASSUME BInv, BusInv, NEW p \in Users, InCode(p)
    PROVE  /\ main \in {"initialize", "startup", "exec"} => state[p] # "registered"
           /\ main # "leaving"
  <1>1. main # "leaving"
    BY DEF InCode
  <1>2. p \in Plugins /\ calls \in Seq(Plugins)
    BY BusAssumption DEF BInv, BTypeOK
  <1>3. calls # <<>> => Len(calls) \in DOMAIN calls
    BY <1>2
  <1>4. CASE main = "initialize"
    <2>1. calls # <<>> /\ p = calls[Len(calls)] /\ Phase("registered", "initialized", initialized)
      BY <1>4 DEF InCode, ReadyForBody, Top, BInv, PhaseInv
    <2>2. state[p] = "initialized"
      BY <1>2, <1>3, <2>1 DEF Phase
    <2> QED BY <1>1, <2>2
  <1>5. CASE main = "startup"
    <2>1. calls # <<>> /\ p = calls[Len(calls)] /\ Phase("initialized", "started", running)
      BY <1>5 DEF InCode, ReadyForBody, Top, BInv, PhaseInv
    <2>2. state[p] = "started"
      BY <1>2, <1>3, <2>1 DEF Phase
    <2> QED BY <1>1, <2>2
  <1>6. CASE main = "exec"
    <2>1. state[p] = "started" \/ (round.now # 0 /\ slots[round.now].owner = p)
      BY <1>6 DEF InCode
    <2>2. round.now # 0 => round.now \in DOMAIN slots
      BY DEF BusInv, BusType
    <2> QED BY <1>1, <1>6, <2>1, <2>2 DEF BusInv, OwnerInv
  <1> QED BY <1>1, <1>4, <1>5, <1>6

(* What disconnecting some slots leaves of all of them. *)
LEMMA DisconnectFacts ==
    ASSUME BusType, NEW S
    PROVE  /\ Disconnect(S) \in Seq(SlotType)
           /\ DOMAIN Disconnect(S) = DOMAIN slots
           /\ \A i \in DOMAIN slots :
                /\ Disconnect(S)[i].owner = slots[i].owner
                /\ Disconnect(S)[i].since = slots[i].since
                /\ Disconnect(S)[i].heard = slots[i].heard
                /\ Disconnect(S)[i].connected <=> slots[i].connected /\ i \notin S
  <1>1. slots \in Seq(SlotType) /\ Len(slots) \in Nat /\ DOMAIN slots = 1 .. Len(slots)
    BY DEF BusType
  <1>2. ASSUME NEW i \in DOMAIN slots
        PROVE  /\ [slots[i] EXCEPT !.connected = @ /\ i \notin S] \in SlotType
               /\ [slots[i] EXCEPT !.connected = @ /\ i \notin S].owner = slots[i].owner
               /\ [slots[i] EXCEPT !.connected = @ /\ i \notin S].since = slots[i].since
               /\ [slots[i] EXCEPT !.connected = @ /\ i \notin S].heard = slots[i].heard
               /\ [slots[i] EXCEPT !.connected = @ /\ i \notin S].connected
                    <=> slots[i].connected /\ i \notin S
    <2>1. slots[i] \in SlotType
      BY <1>1
    <2>2. (slots[i].connected /\ i \notin S) \in BOOLEAN
      BY <2>1 DEF SlotType
    <2> QED BY <2>1, <2>2 DEF SlotType
  <1>3. Disconnect(S) \in [1 .. Len(slots) -> SlotType]
    BY <1>1, <1>2 DEF Disconnect
  <1>4. Disconnect(S) \in Seq(SlotType)
    BY <1>1, <1>3
  <1> QED BY <1>1, <1>2, <1>4 DEF Disconnect

(* Slots may be disconnected at any time; at the end of shutdown all that handles refer to. *)
LEMMA DisconnectBusInv ==
    ASSUME BInv, BusInv, [BNext]_bvars, NEW S, slots' = Disconnect(S),
           UNCHANGED <<handle, published, posted, round>>,
           \/ main' = "leaving" => main = "leaving"
           \/ S = {handle[p] : p \in Users}
    PROVE  BusInv'
  <1>1. BusType
    BY DEF BusInv
  <1>2. /\ slots' \in Seq(SlotType) /\ DOMAIN slots' = DOMAIN slots
        /\ \A i \in DOMAIN slots :
            /\ slots'[i].owner = slots[i].owner
            /\ slots'[i].since = slots[i].since
            /\ slots'[i].heard = slots[i].heard
            /\ slots'[i].connected <=> slots[i].connected /\ i \notin S
    BY <1>1, DisconnectFacts
  <1>3. Connected' = Connected \ S
    BY <1>2 DEF Connected
  <1>4. BusType'
    BY <1>1, <1>2 DEF BusType
  <1>5. OrderInv' /\ HeardInOrder'
    BY <1>2 DEF BusInv, OrderInv, HeardInOrder
  <1>6. NoneMissed' /\ HandleInv'
    <2>1. Connected \subseteq DOMAIN slots
      BY DEF Connected
    <2>2. NoneMissed'
      BY <1>2, <1>3, <2>1 DEF BusInv, NoneMissed, Contains
    <2>3. HandleInv'
      BY <1>2, <1>3, <2>1 DEF BusInv, HandleInv
    <2> QED BY <2>2, <2>3
  <1>7. OwnerInv'
    <2>1. \A i \in DOMAIN slots : slots[i].owner \in Plugins
      BY <1>1, SlotFacts
    <2> QED BY <1>2, <2>1, LifeForward DEF BusInv, OwnerInv
  <1>8. OnlyOverwrittenLeft'
    <2>1. Connected \subseteq DOMAIN slots
      BY DEF Connected
    <2>2. CASE main' = "leaving" => main = "leaving"
      BY <1>2, <1>3, <2>1, <2>2 DEF BusInv, OnlyOverwrittenLeft
    <2>3. CASE S = {handle[p] : p \in Users}
      <3>1. ASSUME NEW i \in Connected, i \notin S PROVE handle[slots[i].owner] > i
        <4>1. i \in Nat /\ slots[i].owner \in Users /\ handle[slots[i].owner] \in Nat
          BY <1>1, <2>1, SlotFacts DEF BusType
        <4>2. handle[slots[i].owner] # i
          BY <2>3, <3>1, <4>1
        <4>3. i <= handle[slots[i].owner]
          BY DEF BusInv, HandleInv
        <4> QED BY <4>1, <4>2, <4>3
      <3> QED BY <1>2, <1>3, <2>1, <3>1 DEF OnlyOverwrittenLeft
    <2> QED BY <2>2, <2>3
  <1> QED BY <1>4, <1>5, <1>6, <1>7, <1>8 DEF BusInv

(* A new slot is owed only what is published after it. *)
LEMMA SubscribeBusInv ==
    ASSUME BInv, BusInv, NEW p \in Users, Subscribe(p)
    PROVE  BusInv'
  <1> DEFINE n == Len(slots)
  <1>1. PICK new : new = [owner |-> p, connected |-> TRUE, since |-> published, heard |-> <<>>]
    OBVIOUS
  <1>2. /\ InCode(p) /\ slots' = Append(slots, new) /\ handle' = [handle EXCEPT ![p] = n + 1]
        /\ UNCHANGED <<main, state, published, posted, round>> /\ BusType
    BY <1>1 DEF Subscribe, bvars, BusInv
  <1>3. /\ new \in SlotType /\ new.owner = p /\ new.since = published /\ new.connected
        /\ new.heard = <<>> /\ DOMAIN new.heard = {}
    <2>1. <<>> \in Seq(Nat) /\ published \in Nat
      BY <1>2 DEF BusType
    <2> QED BY <1>1, <2>1 DEF SlotType
  <1>4. /\ n \in Nat /\ DOMAIN slots = 1 .. n /\ DOMAIN slots' = 1 .. n + 1
        /\ slots' \in Seq(SlotType) /\ slots'[n + 1] = new
        /\ \A i \in 1 .. n : slots'[i] = slots[i]
    BY <1>2, <1>3, SlotFacts DEF BusType
  <1>5. \A i \in DOMAIN slots' : (i \in DOMAIN slots /\ slots'[i] = slots[i]) \/ i = n + 1
    BY <1>4
  <1>6. BusType'
    <2>1. handle' \in [Users -> Nat]
      BY <1>2, <1>4 DEF BusType
    <2>2. DOMAIN slots \subseteq DOMAIN slots'
      BY <1>4
    <2> QED BY <1>2, <1>4, <2>1, <2>2 DEF BusType
  <1>7. n + 1 \notin round.todo
    BY <1>2, <1>4 DEF BusType
  <1>8. OrderInv' /\ HeardInOrder'
    BY <1>2, <1>3, <1>4, <1>5 DEF BusInv, OrderInv, HeardInOrder
  <1>9. Connected' = Connected \cup {n + 1} /\ Connected \subseteq DOMAIN slots
    BY <1>3, <1>4 DEF Connected
  <1>10. NoneMissed'
    <2>1. ASSUME NEW i \in Connected', NEW m \in slots'[i].since + 1 .. published'
          PROVE  \/ Contains(slots'[i].heard, m)
                 \/ Contains(posted', m)
                 \/ m = round'.msg /\ i \in round'.todo
      <3>1. CASE i = n + 1
        BY <1>2, <1>3, <1>4, <2>1, <3>1 DEF BusType
      <3>2. CASE i \in Connected
        BY <1>2, <1>4, <1>9, <2>1, <3>2 DEF BusInv, NoneMissed
      <3> QED BY <1>9, <3>1, <3>2
    <2> QED BY <2>1 DEF NoneMissed, Contains
  <1>11. HandleInv'
    <2>1. ASSUME NEW i \in Connected' PROVE i <= handle'[slots'[i].owner]
      <3>1. CASE i = n + 1
        BY <1>2, <1>3, <1>4, <3>1 DEF BusType
      <3>2. CASE i \in Connected
        <4>1. /\ i \in 1 .. n /\ slots'[i] = slots[i] /\ slots[i].owner \in Users
              /\ i <= handle[slots[i].owner]
          BY <1>2, <1>4, <1>9, <3>2, SlotFacts DEF BusInv, HandleInv
        <4>2. handle'[slots[i].owner] = IF slots[i].owner = p THEN n + 1 ELSE handle[slots[i].owner]
          BY <1>2, <4>1 DEF BusType
        <4> QED BY <1>4, <4>1, <4>2
      <3> QED BY <1>9, <3>1, <3>2
    <2> QED BY <2>1 DEF HandleInv
  <1>12. OwnerInv' /\ OnlyOverwrittenLeft'
    BY <1>2, <1>3, <1>4, <1>5, InCodeFacts DEF BusInv, OwnerInv, OnlyOverwrittenLeft
  <1> QED BY <1>6, <1>8, <1>10, <1>11, <1>12 DEF BusInv

(* What stays while only messages move. *)
LEMMA SameSlots ==
    ASSUME BusInv, UNCHANGED <<main, state, slots, handle>>
    PROVE  HeardInOrder' /\ HandleInv' /\ OwnerInv' /\ OnlyOverwrittenLeft' /\ Connected' = Connected
BY DEF BusInv, HeardInOrder, HandleInv, OwnerInv, OnlyOverwrittenLeft, Connected

(* A message is posted behind all earlier ones, or nobody listens. *)
LEMMA PublishBusInv ==
    ASSUME BInv, BusInv, NEW p \in Users, Publish(p)
    PROVE  BusInv'
  <1> DEFINE m == published + 1
  <1>1. /\ BusType /\ OrderInv /\ NoneMissed /\ published' = m
        /\ posted' = IF Connected # {} THEN Append(posted, m) ELSE posted
        /\ UNCHANGED <<main, state, slots, handle, round>>
    BY DEF Publish, bvars, BusInv
  <1>2. published \in Nat /\ posted \in Seq(Nat) /\ m \in Nat
    BY <1>1 DEF BusType
  <1>3. /\ DOMAIN posted = 1 .. Len(posted) /\ Len(posted) \in Nat
        /\ posted' \in Seq(Nat)
        /\ \A k \in DOMAIN posted : posted[k] \in Nat
    BY <1>1, <1>2
  <1>4. /\ \A k \in DOMAIN posted : k \in DOMAIN posted' /\ posted'[k] = posted[k]
        /\ \A k \in DOMAIN posted' : \/ k \in DOMAIN posted /\ posted'[k] = posted[k]
                                     \/ k = Len(posted) + 1 /\ posted'[k] = m
        /\ DOMAIN posted' \subseteq Nat
    BY <1>1, <1>2
  <1>5. Connected # {} => \E k \in DOMAIN posted' : posted'[k] = m
    BY <1>1, <1>2
  <1>6. BusType'
    BY <1>1, <1>2, <1>3 DEF BusType
  <1>7. OrderInv'
    <2>1. round'.msg <= published'
      BY <1>1, <1>2 DEF OrderInv, BusType
    <2>2. \A j, k \in DOMAIN posted' : j < k => posted'[j] < posted'[k]
      BY <1>2, <1>3, <1>4, <1>1 DEF OrderInv
    <2>3. \A k \in DOMAIN posted' : round'.msg < posted'[k] /\ posted'[k] <= published'
      BY <1>1, <1>2, <1>3, <1>4 DEF OrderInv, BusType
    <2>4. ASSUME NEW i \in DOMAIN slots', NEW j \in DOMAIN slots'[i].heard
          PROVE  /\ slots'[i].heard[j] <= published'
                 /\ \A k \in DOMAIN posted' : slots'[i].heard[j] < posted'[k]
                 /\ i \in round'.todo => slots'[i].heard[j] < round'.msg
      <3>1. slots[i].heard[j] \in Nat
        BY <1>1, <2>4, SlotFacts
      <3> QED BY <1>1, <1>2, <1>3, <1>4, <2>4, <3>1 DEF OrderInv
    <2> QED BY <2>1, <2>2, <2>3, <2>4 DEF OrderInv
  <1>8. NoneMissed'
    <2>1. ASSUME NEW i \in Connected', NEW x \in slots'[i].since + 1 .. published'
          PROVE  \/ Contains(slots'[i].heard, x)
                 \/ Contains(posted', x)
                 \/ x = round'.msg /\ i \in round'.todo
      <3>1. i \in Connected /\ slots[i].since \in Nat
        BY <1>1, <2>1, SlotFacts DEF Connected
      <3>2. CASE x = m
        BY <1>3, <1>5, <3>1, <3>2 DEF Contains
      <3>3. CASE x \in slots[i].since + 1 .. published
        <4>1. \/ Contains(slots[i].heard, x) \/ Contains(posted, x)
              \/ x = round.msg /\ i \in round.todo
          BY <1>1, <3>1, <3>3 DEF NoneMissed
        <4>2. Contains(posted, x) => Contains(posted', x)
          BY <1>3, <1>4 DEF Contains
        <4> QED BY <1>1, <4>1, <4>2
      <3> QED BY <1>1, <1>2, <2>1, <3>1, <3>2, <3>3
    <2> QED BY <2>1 DEF NoneMissed, Contains
  <1> QED BY <1>1, <1>6, <1>7, <1>8, SameSlots DEF BusInv

(* A delivery takes the oldest message and the slots connected now. *)
LEMMA DeliverBeginBusInv ==
    ASSUME BInv, BusInv, DeliverBegin
    PROVE  BusInv'
  <1>1. /\ BusType /\ OrderInv /\ NoneMissed /\ round = Idle /\ posted # <<>>
        /\ round' = [msg |-> Head(posted), now |-> 0, todo |-> Connected]
        /\ posted' = Tail(posted)
        /\ UNCHANGED <<main, state, slots, handle, published>>
    BY DEF DeliverBegin, bvars, BusInv
  <1>2. posted \in Seq(Nat) /\ published \in Nat
    BY <1>1 DEF BusType
  <1>3. /\ Len(posted) \in Nat /\ DOMAIN posted = 1 .. Len(posted) /\ 1 \in DOMAIN posted
        /\ Head(posted) = posted[1] /\ Head(posted) \in Nat
        /\ posted' \in Seq(Nat) /\ DOMAIN posted' = 1 .. Len(posted) - 1
        /\ Len(posted') = Len(posted) - 1
        /\ \A k \in DOMAIN posted' : k + 1 \in DOMAIN posted /\ posted'[k] = posted[k + 1]
    BY <1>1, <1>2
  <1>4. /\ round'.msg = posted[1] /\ round'.now = 0 /\ round'.todo = Connected
        /\ round.todo = {}
    BY <1>1, <1>3 DEF Idle
  <1>5. Connected \subseteq DOMAIN slots /\ DOMAIN slots \subseteq Nat
    BY <1>1, SlotFacts DEF Connected
  <1>6. BusType'
    <2>1. round' \in [msg : Nat, now : Nat, todo : SUBSET Nat]
      BY <1>1, <1>3, <1>5
    <2> QED BY <1>1, <1>3, <1>4, <1>5, <2>1 DEF BusType
  <1>7. OrderInv'
    <2>1. round'.msg <= published'
      BY <1>1, <1>3, <1>4 DEF OrderInv
    <2>2. \A j, k \in DOMAIN posted' : j < k => posted'[j] < posted'[k]
      <3> TAKE j, k \in DOMAIN posted'
      <3>1. j < k => j + 1 < k + 1
        BY <1>3
      <3> QED BY <1>1, <1>3, <3>1 DEF OrderInv
    <2>3. \A k \in DOMAIN posted' : round'.msg < posted'[k] /\ posted'[k] <= published'
      <3> TAKE k \in DOMAIN posted'
      <3>1. k + 1 \in DOMAIN posted /\ 1 < k + 1 /\ posted'[k] = posted[k + 1]
        BY <1>3
      <3> QED BY <1>1, <1>3, <1>4, <3>1 DEF OrderInv
    <2>4. \A i \in DOMAIN slots' : \A j \in DOMAIN slots'[i].heard :
            /\ slots'[i].heard[j] <= published'
            /\ \A k \in DOMAIN posted' : slots'[i].heard[j] < posted'[k]
            /\ i \in round'.todo => slots'[i].heard[j] < round'.msg
      BY <1>1, <1>3, <1>4 DEF OrderInv
    <2> QED BY <2>1, <2>2, <2>3, <2>4 DEF OrderInv
  <1>8. NoneMissed'
    <2>1. ASSUME NEW i \in Connected', NEW x \in slots'[i].since + 1 .. published'
          PROVE  \/ Contains(slots'[i].heard, x)
                 \/ Contains(posted', x)
                 \/ x = round'.msg /\ i \in round'.todo
      <3>1. i \in Connected /\ (Contains(slots[i].heard, x) \/ Contains(posted, x))
        BY <1>1, <1>4, <2>1 DEF NoneMissed, Connected
      <3>2. ASSUME Contains(posted, x), x # posted[1] PROVE Contains(posted', x)
        <4>1. PICK k \in 1 .. Len(posted) : posted[k] = x
          BY <3>2 DEF Contains
        <4>2. k - 1 \in 1 .. Len(posted') /\ posted'[k - 1] = x
          <5>1. k - 1 \in DOMAIN posted' /\ (k - 1) + 1 = k
            BY <1>3, <3>2, <4>1
          <5> QED BY <1>3, <4>1, <5>1
        <4> QED BY <4>2 DEF Contains
      <3> QED BY <1>1, <1>4, <3>1, <3>2
    <2> QED BY <2>1 DEF NoneMissed, Contains
  <1> QED BY <1>1, <1>6, <1>7, <1>8, SameSlots DEF BusInv

(* A delivery ends when no slot is left to call. *)
LEMMA DeliverEndBusInv ==
    ASSUME BInv, BusInv, DeliverEnd
    PROVE  BusInv'
  <1>1. /\ BusType /\ OrderInv /\ NoneMissed /\ round.todo = {} /\ round' = Idle
        /\ UNCHANGED <<main, state, slots, handle, published, posted>>
    BY DEF DeliverEnd, bvars, BusInv
  <1>2. /\ round'.msg = 0 /\ round'.now = 0 /\ round'.todo = {}
        /\ round' \in [msg : Nat, now : Nat, todo : SUBSET Nat]
    BY <1>1 DEF Idle
  <1>3. BusType'
    BY <1>1, <1>2 DEF BusType
  <1>4. OrderInv'
    <2>1. round.msg \in Nat /\ published \in Nat /\ \A k \in DOMAIN posted : posted[k] \in Nat
      BY <1>1 DEF BusType
    <2> QED BY <1>1, <1>2, <2>1 DEF OrderInv
  <1>5. NoneMissed'
    BY <1>1, <1>2 DEF NoneMissed, Connected, Contains
  <1> QED BY <1>1, <1>3, <1>4, <1>5, SameSlots DEF BusInv

(* A slot that is called hears the message of the round after all it has heard. *)
LEMMA DeliverCallBusInv ==
    ASSUME BInv, BusInv, DeliverCall
    PROVE  /\ BusInv'
           /\ \A i \in DOMAIN slots : slots'[i].heard # slots[i].heard => slots[i].connected
  <1>1. PICK s \in round.todo :
            \/ /\ s \in Connected
               /\ slots' = [slots EXCEPT ![s].heard = Append(@, round.msg)]
               /\ round' = [round EXCEPT !.now = s, !.todo = @ \ {s}]
            \/ /\ s \notin Connected
               /\ round' = [round EXCEPT !.now = 0, !.todo = @ \ {s}]
               /\ UNCHANGED slots
    BY DEF DeliverCall
  <1>2. /\ BusType /\ OrderInv /\ HeardInOrder /\ NoneMissed /\ HandleInv /\ OwnerInv
        /\ OnlyOverwrittenLeft
        /\ UNCHANGED <<main, state, handle, published, posted>>
    BY DEF DeliverCall, bvars, BusInv
  <1>3. /\ s \in DOMAIN slots /\ s \in Nat /\ round.msg \in Nat
        /\ round.todo \subseteq DOMAIN slots
        /\ slots \in Seq(SlotType) /\ slots[s] \in SlotType /\ slots[s].heard \in Seq(Nat)
    BY <1>2, SlotFacts DEF BusType
  <1>4. /\ round'.msg = round.msg /\ round'.todo = round.todo \ {s}
        /\ round'.now \in {0, s} /\ round' \in [msg : Nat, now : Nat, todo : SUBSET Nat]
    <2>1. PICK x \in {0, s} : round' = [round EXCEPT !.now = x, !.todo = @ \ {s}]
      BY <1>1
    <2>2. round \in [msg : Nat, now : Nat, todo : SUBSET Nat] /\ x \in Nat
      BY <1>2, <1>3 DEF BusType
    <2> QED BY <2>1, <2>2
  <1>5. CASE s \notin Connected
    <2>1. slots' = slots
      BY <1>1, <1>5
    <2>2. BusType'
      BY <1>2, <1>3, <1>4, <2>1 DEF BusType
    <2>3. OrderInv'
      BY <1>2, <1>4, <2>1 DEF OrderInv
    <2>4. NoneMissed'
      BY <1>2, <1>4, <1>5, <2>1 DEF NoneMissed, Connected, Contains
    <2> QED BY <1>2, <2>1, <2>2, <2>3, <2>4, SameSlots DEF BusInv
  <1>6. CASE s \in Connected
    <2>1. PICK new : new = [slots[s] EXCEPT !.heard = Append(@, round.msg)]
      OBVIOUS
    <2>2. slots' = [slots EXCEPT ![s] = new]
      BY <1>1, <1>6, <2>1
    <2>3. /\ new \in SlotType /\ new.owner = slots[s].owner /\ new.since = slots[s].since
          /\ new.connected = slots[s].connected /\ new.heard = Append(slots[s].heard, round.msg)
      <3>1. PICK h : h = Append(slots[s].heard, round.msg)
        OBVIOUS
      <3>2. h \in Seq(Nat)
        BY <1>3, <3>1
      <3>3. new = [slots[s] EXCEPT !.heard = h]
        BY <2>1, <3>1
      <3>4. /\ new \in SlotType /\ new.owner = slots[s].owner /\ new.since = slots[s].since
            /\ new.connected = slots[s].connected /\ new.heard = h
        BY <1>3, <3>2, <3>3 DEF SlotType
      <3> QED BY <3>1, <3>4
    <2>4. /\ slots' \in Seq(SlotType) /\ DOMAIN slots' = DOMAIN slots /\ slots'[s] = new
          /\ \A i \in DOMAIN slots : i # s => slots'[i] = slots[i]
      BY <1>3, <2>2, <2>3
    <2>5. /\ Connected' = Connected /\ Connected \subseteq DOMAIN slots
          /\ \A i \in DOMAIN slots : /\ slots'[i].owner = slots[i].owner
                                     /\ slots'[i].since = slots[i].since
      BY <2>3, <2>4 DEF Connected
    <2>6. /\ \A j \in DOMAIN slots[s].heard : slots[s].heard[j] < round.msg
          /\ \A j \in DOMAIN slots[s].heard : j \in DOMAIN new.heard /\ new.heard[j] = slots[s].heard[j]
          /\ DOMAIN slots[s].heard = 1 .. Len(slots[s].heard) /\ Len(slots[s].heard) \in Nat
          /\ DOMAIN new.heard = 1 .. Len(slots[s].heard) + 1
          /\ new.heard[Len(slots[s].heard) + 1] = round.msg
          /\ Len(new.heard) = Len(slots[s].heard) + 1
      BY <1>2, <1>3, <2>3 DEF OrderInv
    <2>7. BusType'
      BY <1>2, <1>3, <1>4, <2>4 DEF BusType
    <2>8. HeardInOrder'
      <3>1. \A j, k \in DOMAIN new.heard : j < k => new.heard[j] < new.heard[k]
        <4> TAKE j, k \in DOMAIN new.heard
        <4>1. CASE k \in DOMAIN slots[s].heard
          <5>1. j < k => j \in DOMAIN slots[s].heard
            BY <2>6, <4>1
          <5> QED BY <1>2, <1>3, <2>6, <4>1, <5>1 DEF HeardInOrder
        <4>2. CASE k = Len(slots[s].heard) + 1
          <5>1. j < k => j \in DOMAIN slots[s].heard
            BY <2>6, <4>2
          <5> QED BY <2>6, <4>2, <5>1
        <4> QED BY <2>6, <4>1, <4>2
      <3> QED BY <1>2, <2>4, <3>1 DEF HeardInOrder
    <2>9. OrderInv'
      <3>1. \A j \in DOMAIN new.heard :
                /\ new.heard[j] <= published
                /\ \A k \in DOMAIN posted : new.heard[j] < posted[k]
        <4> TAKE j \in DOMAIN new.heard
        <4>1. CASE j \in DOMAIN slots[s].heard
          BY <1>2, <1>3, <2>6, <4>1 DEF OrderInv
        <4>2. CASE new.heard[j] = round.msg
          BY <1>2, <4>2 DEF OrderInv
        <4> QED BY <2>6, <4>1, <4>2
      <3>2. s \notin round'.todo
        BY <1>4
      <3> QED BY <1>2, <1>4, <2>4, <3>1, <3>2 DEF OrderInv
    <2>10. NoneMissed'
      <3>1. ASSUME NEW i \in Connected, NEW x \in slots[i].since + 1 .. published
            PROVE  \/ Contains(slots'[i].heard, x)
                   \/ Contains(posted, x)
                   \/ x = round.msg /\ i \in round'.todo
        <4>1. \/ Contains(slots[i].heard, x) \/ Contains(posted, x)
              \/ x = round.msg /\ i \in round.todo
          BY <1>2, <3>1 DEF NoneMissed
        <4>2. CASE i # s
          BY <1>4, <2>4, <2>5, <4>1, <4>2
        <4>3. CASE i = s
          <5>1. Contains(slots[s].heard, x) => Contains(new.heard, x)
            BY <2>6 DEF Contains
          <5>2. Contains(new.heard, round.msg)
            BY <2>6 DEF Contains
          <5> QED BY <2>4, <4>1, <4>3, <5>1, <5>2
        <4> QED BY <4>2, <4>3
      <3> QED BY <1>2, <1>4, <2>5, <3>1 DEF NoneMissed, Contains
    <2>11. HandleInv' /\ OwnerInv' /\ OnlyOverwrittenLeft'
      BY <1>2, <2>4, <2>5 DEF HandleInv, OwnerInv, OnlyOverwrittenLeft
    <2>12. slots[s].connected
      BY <1>6 DEF Connected
    <2> QED BY <2>4, <2>7, <2>8, <2>9, <2>10, <2>11, <2>12 DEF BusInv
  <1> QED BY <1>5, <1>6

(* Every step keeps the invariant of the bus. *)
LEMMA NextBusInv == BInv /\ BusInv /\ [BusNext]_<<bvars, busVars>> => BusInv'
  <1> SUFFICES ASSUME BInv, BusInv, [BusNext]_<<bvars, busVars>> PROVE BusInv'
    OBVIOUS
  <1>1. [BNext]_bvars
    BY BusStep
  <1>2. CASE BusShutdownClear
    BY <1>1, <1>2, DisconnectBusInv DEF BusShutdownClear
  <1>3. ASSUME NEW p \in Users, Unsubscribe(p) PROVE BusInv'
    <2>1. main' = main
      BY <1>3 DEF Unsubscribe, bvars
    <2> QED BY <1>1, <1>3, <2>1, DisconnectBusInv DEF Unsubscribe
  <1>4. CASE \/ Lifecycle /\ UNCHANGED busVars
             \/ BusExecReturns
             \/ QuitStops /\ UNCHANGED busVars
             \/ \E s \in Signals : Signal(s) /\ UNCHANGED busVars
             \/ UNCHANGED <<bvars, busVars>>
    <2>1. UNCHANGED busVars
      BY <1>4 DEF BusExecReturns
    <2>2. main' = "leaving" => main = "leaving"
      BY <1>4 DEF Lifecycle, BusExecReturns, bvars, InitializeNext, InitializeRequired,
         InitializeBody, InitializeDeclines, InitializeThrows, StartupBegin, StartupNext,
         StartupRequired, StartupBody, StartupThrows, StartupEnd, ExecReturns, ShutdownNext,
         Leave, QuitStops, Signal
    <2> QED BY <1>1, <2>1, <2>2, LifeBusInv
  <1> QED BY <1>2, <1>3, <1>4, SubscribeBusInv, PublishBusInv, DeliverBeginBusInv,
          DeliverCallBusInv, DeliverEndBusInv DEF BusNext, BusMainStep

-----------------------------------------------------------------------------
(* The invariant of the channel, with that of the application it lives in. *)
THEOREM BusInvariant == BusSpec => [](BInv /\ BusInv)
  <1>1. BusInit => BusInv
    BY InitBusInv
  <1>2. BInv /\ BusInv /\ [BusNext]_<<bvars, busVars>> => BusInv'
    BY NextBusInv
  <1> QED BY <1>1, <1>2, LifeInvariant, PTL DEF BusSpec

(***************************************************************************)
(* A subscriber hears each message at most once, in the order published.   *)
(***************************************************************************)
THEOREM AlwaysHeardInOrder == BusSpec => []HeardInOrder
  <1>1. BusInv => HeardInOrder
    BY DEF BusInv
  <1> QED BY <1>1, BusInvariant, PTL

(***************************************************************************)
(* A subscriber that stays connected misses nothing.                       *)
(***************************************************************************)
THEOREM NeverMissed == BusSpec => []NoneMissed
  <1>1. BusInv => NoneMissed
    BY DEF BusInv
  <1> QED BY <1>1, BusInvariant, PTL

(***************************************************************************)
(* After shutdown only the slots of overwritten handles are connected.     *)
(***************************************************************************)
THEOREM AlwaysOnlyOverwrittenLeft == BusSpec => []OnlyOverwrittenLeft
  <1>1. BusInv => OnlyOverwrittenLeft
    BY DEF BusInv
  <1> QED BY <1>1, BusInvariant, PTL

(* Only a delivery makes a slot hear something. *)
LEMMA OnlyCallsHeard ==
    ASSUME BusInv, [BusNext]_<<bvars, busVars>>, ~ DeliverCall, NEW i \in DOMAIN slots
    PROVE  slots'[i].heard = slots[i].heard
  <1>1. BusType
    BY DEF BusInv
  <1>2. CASE slots' = slots
    BY <1>2
  <1>3. ASSUME NEW S, slots' = Disconnect(S) PROVE slots'[i].heard = slots[i].heard
    BY <1>1, <1>3, DisconnectFacts
  <1>4. ASSUME NEW x \in SlotType, slots' = Append(slots, x)
        PROVE  slots'[i].heard = slots[i].heard
    BY <1>1, <1>4 DEF BusType
  <1>5. ASSUME NEW p \in Users, Subscribe(p) PROVE slots'[i].heard = slots[i].heard
    <2>1. <<>> \in Seq(Nat) /\ published \in Nat
      BY <1>1 DEF BusType
    <2>2. [owner |-> p, connected |-> TRUE, since |-> published, heard |-> <<>>] \in SlotType
      BY <2>1 DEF SlotType
    <2> QED BY <1>4, <1>5, <2>2 DEF Subscribe
  <1>6. ASSUME NEW p \in Users, Unsubscribe(p) PROVE slots'[i].heard = slots[i].heard
    BY <1>3, <1>6 DEF Unsubscribe
  <1>7. CASE BusShutdownClear
    BY <1>3, <1>7 DEF BusShutdownClear
  <1> QED BY <1>2, <1>5, <1>6, <1>7
          DEF BusNext, BusMainStep, busVars, BusExecReturns, DeliverBegin, DeliverEnd, Publish

(***************************************************************************)
(* A callback runs while its plugin is connected and started, or is only   *)
(* initialized because a quit cut startup short.                           *)
(***************************************************************************)
THEOREM AlwaysCalledWhileAlive == BusSpec => CalledWhileAlive
  <1> DEFINE Alive ==
        \A i \in DOMAIN slots : slots'[i].heard # slots[i].heard =>
          /\ slots[i].connected
          /\ \/ state[slots[i].owner] = "started"
             \/ state[slots[i].owner] = "initialized" /\ quiting
  <1>1. ASSUME BInv, BusInv, [BusNext]_<<bvars, busVars>>
        PROVE  Alive
    <2> SUFFICES ASSUME NEW i \in DOMAIN slots, slots'[i].heard # slots[i].heard
                 PROVE  /\ slots[i].connected
                        /\ \/ state[slots[i].owner] = "started"
                           \/ state[slots[i].owner] = "initialized" /\ quiting
      OBVIOUS
    <2>1. DeliverCall
      BY <1>1, OnlyCallsHeard
    <2>2. main = "exec" /\ slots[i].connected
      BY <1>1, <2>1, DeliverCallBusInv DEF DeliverCall
    <2>3. slots[i].owner \in Plugins /\ state[slots[i].owner] \in States
      BY <1>1, SlotFacts DEF BusInv, BInv, BTypeOK
    <2>4. state[slots[i].owner] # "registered"
      BY <1>1, <2>2 DEF BusInv, OwnerInv
    <2>5. /\ state[slots[i].owner] # "stopped"
          /\ quiting \/ state[slots[i].owner] # "initialized"
      BY <1>1, <2>2, <2>3 DEF BInv, LoopInv
    <2> QED BY <2>2, <2>3, <2>4, <2>5 DEF States
  <1>2. BInv /\ BusInv /\ [BusNext]_<<bvars, busVars>> => [Alive]_<<bvars, busVars>>
    BY <1>1
  <1> HIDE DEF Alive
  <1>3. BusSpec => [][Alive]_<<bvars, busVars>>
    BY <1>2, BusInvariant, PTL DEF BusSpec
  <1> QED BY <1>3 DEF Alive, CalledWhileAlive
=============================================================================
