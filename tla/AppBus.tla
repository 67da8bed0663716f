------------------------------- MODULE AppBus -------------------------------
(***************************************************************************)
(* A channel of appbase (channel.hpp) in a running application: plugins    *)
(* subscribe to it, unsubscribe and publish, from their own bodies and     *)
(* from handlers, and the io_service of exec() delivers.  Everything here  *)
(* runs on the main thread; only a quit comes from the signal thread.      *)
(* boost::signals2 is external: a signal calls the slots that were         *)
(* connected when the call began, in the order they were connected, except *)
(* the ones disconnected meanwhile.                                        *)
(***************************************************************************)
EXTENDS AppBase, SequencesExt

CONSTANTS
    Users,         \* the plugins that use the channel
    MaxSlots,      \* bound: subscriptions
    MaxPublished   \* bound: messages

ASSUME BusAssumption == Users \subseteq Plugins

VARIABLES
    slots,      \* the slots ever connected; as history, what each one heard
    handle,     \* the slot each user's channel::handle refers to, 0 for none
    published,  \* messages so far; a message is its number
    posted,     \* the messages whose delivery is in the io_service
    round       \* the delivery in progress

busVars == <<slots, handle, published, posted, round>>

Idle == [msg |-> 0, now |-> 0, todo |-> {}]

BusInit ==
    /\ BInit
    /\ slots = <<>>
    /\ handle = [p \in Users |-> 0]
    /\ published = 0
    /\ posted = <<>>
    /\ round = Idle

(* The main thread is in code of p: one of its bodies, a callback, a handler. *)
InCode(p) ==
    \/ main = "initialize" /\ ReadyForBody("registered") /\ Top = p
    \/ main = "startup" /\ ReadyForBody("initialized") /\ Top = p
    \/ main = "shutdown" /\ next > 0 /\ running[next] = p
    \/ /\ main = "exec"
       /\ IF round = Idle
          THEN io_serv = "runnable" /\ state[p] = "started"
          ELSE round.now # 0 /\ slots[round.now].owner = p

Connected == {i \in DOMAIN slots : slots[i].connected}

Disconnect(S) ==
    [i \in DOMAIN slots |-> [slots[i] EXCEPT !.connected = @ /\ i \notin S]]

-----------------------------------------------------------------------------
(***************************************************************************)
(* The handle that subscribe returns is moved into the one the plugin      *)
(* keeps; what that one referred to stays connected.                       *)
(***************************************************************************)
Subscribe(p) ==
    /\ InCode(p)
    /\ Len(slots) < MaxSlots
    /\ slots' = Append(slots, [owner |-> p, connected |-> TRUE,
                               since |-> published, heard |-> <<>>])
    /\ handle' = [handle EXCEPT ![p] = Len(slots) + 1]
    /\ UNCHANGED <<bvars, published, posted, round>>

Unsubscribe(p) ==
    /\ InCode(p)
    /\ handle[p] \in Connected
    /\ slots' = Disconnect({handle[p]})
    /\ UNCHANGED <<bvars, handle, published, posted, round>>

(* Variant: a later message overtakes the ones that wait. *)
Publish_Front(p) ==
    /\ InCode(p)
    /\ published < MaxPublished
    /\ published' = published + 1
    /\ posted' = IF Connected # {} THEN <<published + 1>> \o posted ELSE posted
    /\ UNCHANGED <<bvars, slots, handle, round>>

(* Nothing is posted for a channel without subscribers. *)
Publish(p) ==
    /\ InCode(p)
    /\ published < MaxPublished
    /\ published' = published + 1
    /\ posted' = IF Connected # {} THEN Append(posted, published + 1) ELSE posted
    /\ UNCHANGED <<bvars, slots, handle, round>>

(***************************************************************************)
(* run() takes a posted delivery: _signal(data), under drop_exceptions.    *)
(***************************************************************************)
DeliverBegin ==
    /\ main = "exec"
    /\ round = Idle
    /\ io_serv = "runnable"
    /\ posted # <<>>
    /\ round' = [msg |-> Head(posted), now |-> 0, todo |-> Connected]
    /\ posted' = Tail(posted)
    /\ UNCHANGED <<bvars, slots, handle, published>>

(* Variant: a slot that was disconnected during the round is called. *)
DeliverCall_Stale ==
    /\ main = "exec"
    /\ \E s \in round.todo :
        /\ \A t \in round.todo : s <= t
        /\ slots' = [slots EXCEPT ![s].heard = Append(@, round.msg)]
        /\ round' = [round EXCEPT !.now = s, !.todo = @ \ {s}]
    /\ UNCHANGED <<bvars, handle, published, posted>>

(***************************************************************************)
(* The next slot is called, unless it is disconnected by now.  An          *)
(* exception of the one before is dropped.                                 *)
(***************************************************************************)
DeliverCall ==
    /\ main = "exec"
    /\ \E s \in round.todo :
        /\ \A t \in round.todo : s <= t
        /\ \/ /\ s \in Connected
              /\ slots' = [slots EXCEPT ![s].heard = Append(@, round.msg)]
              /\ round' = [round EXCEPT !.now = s, !.todo = @ \ {s}]
           \/ /\ s \notin Connected
              /\ round' = [round EXCEPT !.now = 0, !.todo = @ \ {s}]
              /\ UNCHANGED slots
    /\ UNCHANGED <<bvars, handle, published, posted>>

(* Variant: an exception ends the round. *)
DeliverEnd_Throws ==
    /\ main = "exec"
    /\ round # Idle
    /\ round.todo = {} \/ round.now # 0
    /\ round' = Idle
    /\ UNCHANGED <<bvars, slots, handle, published, posted>>

DeliverEnd ==
    /\ main = "exec"
    /\ round # Idle
    /\ round.todo = {}
    /\ round' = Idle
    /\ UNCHANGED <<bvars, slots, handle, published, posted>>

(* Variant: what is posted does not keep run() from returning. *)
BusExecReturns_AtOnce ==
    /\ round = Idle
    /\ ExecReturns
    /\ UNCHANGED busVars

(* run() returns between handlers, and with nothing posted unless stopped. *)
BusExecReturns ==
    /\ round = Idle
    /\ io_serv = "stopped" \/ posted = <<>>
    /\ ExecReturns
    /\ UNCHANGED busVars

(* Variant: the handles are not destroyed. *)
BusShutdownClear_Keeps == ShutdownClear /\ UNCHANGED busVars

(* The plugins are destroyed, and with them the handles they keep. *)
BusShutdownClear ==
    /\ ShutdownClear
    /\ slots' = Disconnect({handle[p] : p \in Users})
    /\ UNCHANGED <<handle, published, posted, round>>

Lifecycle ==
    \/ InitializeNext \/ InitializeRequired \/ InitializeBody \/ InitializeThrows
    \/ InitializeDeclines
    \/ StartupBegin \/ StartupNext \/ StartupRequired \/ StartupBody
    \/ StartupThrows \/ StartupEnd
    \/ ShutdownNext \/ Leave

BusMainStep ==
    \/ Lifecycle /\ UNCHANGED busVars
    \/ BusExecReturns \/ BusShutdownClear
    \/ DeliverBegin \/ DeliverCall \/ DeliverEnd

BusNext ==
    \/ BusMainStep
    \/ \E p \in Users : Subscribe(p) \/ Unsubscribe(p) \/ Publish(p)
    \/ QuitStops /\ UNCHANGED busVars
    \/ \E s \in Signals : Signal(s) /\ UNCHANGED busVars

(* Both threads are scheduled; no plugin has to use the channel. *)
BusSpec ==
    /\ BusInit
    /\ [][BusNext]_<<bvars, busVars>>
    /\ WF_<<bvars, busVars>>(BusMainStep)
    /\ WF_<<bvars, busVars>>(QuitStops /\ UNCHANGED busVars)

-----------------------------------------------------------------------------
(***************************************************************************)
(* Properties.                                                             *)
(***************************************************************************)

(***************************************************************************)
(* A subscriber hears each message at most once and in the order they were *)
(* published, whatever the callbacks publish, subscribe or unsubscribe.    *)
(***************************************************************************)
HeardInOrder ==
    \A i \in DOMAIN slots : \A j, k \in DOMAIN slots[i].heard :
        j < k => slots[i].heard[j] < slots[i].heard[k]

(***************************************************************************)
(* A subscriber that stays connected misses nothing that was published     *)
(* since it subscribed, except what still waits or is being delivered; in  *)
(* particular not because another callback threw, or unsubscribed.         *)
(***************************************************************************)
NoneMissed ==
    \A i \in Connected :
        \A m \in slots[i].since + 1 .. published :
            \/ Contains(slots[i].heard, m)
            \/ Contains(posted, m)
            \/ m = round.msg /\ i \in round.todo

(***************************************************************************)
(* A callback runs in a plugin that is started and not yet shut down.  One *)
(* that subscribed in its initialize body and was never started is called  *)
(* only if a quit cut startup short (in a delivery that begins between the *)
(* two statements of quit()).  And nobody is called after unsubscribing.   *)
(***************************************************************************)
CalledWhileAlive ==
    [][\A i \in DOMAIN slots : slots'[i].heard # slots[i].heard =>
          /\ slots[i].connected
          /\ \/ state[slots[i].owner] = "started"
             \/ state[slots[i].owner] = "initialized" /\ quiting]_<<bvars, busVars>>

(***************************************************************************)
(* After shutdown the only subscriptions left are those whose handle was   *)
(* overwritten by a later one of the same plugin.                          *)
(***************************************************************************)
OnlyOverwrittenLeft ==
    main = "leaving" =>
        \A i \in Connected : handle[slots[i].owner] > i

(* An exception of initialize or startup ended the program half-way. *)
Aborted ==
    main = "exited" /\ \E p \in Plugins : state[p] \in {"initialized", "started"}

(***************************************************************************)
(* A message posted before shutdown is delivered in the end, also when no  *)
(* server keeps exec() waiting, unless a quit or an exception ends the     *)
(* program first.  (One posted by a shutdown body never is.)               *)
(***************************************************************************)
PostedIsDelivered ==
    \A m \in 1 .. MaxPublished :
        Contains(posted, m) /\ main \in {"initialize", "startup", "exec"}
            ~> ~ Contains(posted, m) \/ quiting \/ Aborted
=============================================================================
