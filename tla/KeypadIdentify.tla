--------------------------- MODULE KeypadIdentify ---------------------------
(***************************************************************************)
(* Identify mode, in which the keypad reports its inputs to Settings and   *)
(* does nothing else: the Keypad page asks for it, a thread of Settings    *)
(* holds it over a D-Bus connection, and the daemon grants it for as long  *)
(* as that connection lives, ten minutes at most unless it is renewed.     *)
(* A keypad left in identify mode is mute.                                 *)
(***************************************************************************)
EXTENDS Integers, Sequences

CONSTANTS MaxClicks,    \* tab changes and clicks on "Identify"
          MaxBusFaults     \* calls that fail, daemon crashes, the death of Settings

ASSUME IdentifyAssumption == MaxClicks \in Nat /\ MaxBusFaults \in Nat

VARIABLES alive,        \* Settings runs
          tab,          \* the Keypad tab is showing
          identify,     \* the user identifies controls, or tests them in the wizard
          identifySent, \* what the page last told the thread
          channel,      \* the channel to the thread
          wanted, held, \* what the thread wants, and believes it has
          conn,         \* its connection: 0 when it has none
          lost,         \* connections closed, as the daemon has not noticed yet
          up,           \* the daemon runs
          owner,        \* whose identify mode it is: 0 when it is off
          clicks, busFaults

identifyVars == <<alive, tab, identify, identifySent, channel, wanted, held, conn, lost, up, owner, clicks, busFaults>>

Conns == 1..MaxBusFaults + 1

IdentifyTypeOK ==
  /\ {alive, tab, identify, identifySent, wanted, held, up} \subseteq BOOLEAN
  /\ channel \in Seq(BOOLEAN) /\ Len(channel) <= MaxClicks
  /\ {conn, owner} \subseteq {0} \cup Conns /\ lost \subseteq Conns
  /\ clicks \in 0..MaxClicks /\ busFaults \in 0..MaxBusFaults

IdentifyInit ==
  /\ alive = TRUE /\ tab = TRUE /\ identify = FALSE /\ identifySent = FALSE /\ channel = <<>>
  /\ wanted = FALSE /\ held = FALSE /\ conn = 0 /\ lost = {}
  /\ up = TRUE /\ owner = 0 /\ clicks = 0 /\ busFaults = 0

pageSide == <<alive, tab, identify, identifySent, channel, clicks>>
threadSide == <<wanted, held, conn>>
daemonSide == <<up, owner>>

(* sync_identify: leaving the tab forgets it; a change goes to the thread. *)
Sync(on, showing) ==
  /\ identify' = (on /\ showing)
  /\ identifySent' = (on /\ showing)
  /\ channel' = IF identifySent' = identifySent THEN channel ELSE Append(channel, identifySent')

Toggle ==
  /\ alive /\ tab /\ clicks < MaxClicks /\ clicks' = clicks + 1
  /\ Sync(~identify, TRUE)
  /\ UNCHANGED <<alive, tab, threadSide, daemonSide, lost, busFaults>>

(* Another tab is shown, or this one again: nothing hears of it at once.   *)
SwitchTab ==
  /\ alive /\ clicks < MaxClicks /\ clicks' = clicks + 1
  /\ tab' = ~tab
  /\ UNCHANGED <<alive, identify, identifySent, channel, threadSide, daemonSide, lost, busFaults>>

(* The page's poll timer, when the tab is not showing; a status that       *)
(* arrives late syncs with the tab as it is then.                          *)
PollOrStatus ==
  /\ alive /\ identifySent # (identify /\ tab)
  /\ Sync(identify, tab)
  /\ UNCHANGED <<alive, tab, clicks, threadSide, daemonSide, lost, busFaults>>

(* SetIdentify on the wire: it reaches the daemon and is answered; or the  *)
(* answer, or the call with it, is lost.                                   *)
Granted(on, c) ==
  IF on THEN owner' = c ELSE owner' = 0

SetIdentify(on) ==
  LET c == IF conn = 0 THEN 1 + busFaults ELSE conn IN
  \/ /\ up /\ Granted(on, c)
     /\ conn' = c /\ held' = on
     /\ UNCHANGED <<lost, busFaults>>
  \/ /\ ~up \/ busFaults < MaxBusFaults
     /\ (~up /\ UNCHANGED owner) \/ (up /\ (Granted(on, c) \/ UNCHANGED owner))
     /\ held' = FALSE
     /\ IF on THEN conn' = 0 /\ lost' = (IF up THEN lost \cup {c} ELSE lost)
              ELSE conn' = c /\ UNCHANGED lost
     /\ busFaults' = IF up THEN busFaults + 1 ELSE busFaults

(* The thread takes what the page said ...                                 *)
Take ==
  /\ alive /\ channel # <<>>
  /\ channel' = Tail(channel) /\ wanted' = Head(channel)
  /\ SetIdentify(Head(channel))
  /\ UNCHANGED <<alive, tab, identify, identifySent, up, clicks>>

(* Mutant: only what is held is renewed; a call that failed is not retried *)
RenewHeld ==
  /\ alive /\ channel = <<>> /\ wanted /\ held
  /\ SetIdentify(TRUE)
  /\ UNCHANGED <<alive, tab, identify, identifySent, channel, wanted, up, clicks>>

(* ... and renews it every four minutes, or tries again after 5 seconds.   *)
Renew ==
  /\ alive /\ channel = <<>> /\ wanted
  /\ SetIdentify(TRUE)
  /\ UNCHANGED <<alive, tab, identify, identifySent, channel, wanted, up, clicks>>

(* The daemon's watch on the owner.                                        *)
OwnerGone ==
  /\ \E c \in lost :
       /\ lost' = lost \ {c}
       /\ owner' = IF owner = c THEN 0 ELSE owner
  /\ UNCHANGED <<pageSide, threadSide, up, busFaults>>

(* Ten minutes without a renewal: only when nobody renews.                 *)
SafetyNet ==
  /\ up /\ owner # 0 /\ ~(alive /\ wanted)
  /\ owner' = 0
  /\ UNCHANGED <<pageSide, threadSide, lost, up, busFaults>>

DaemonStops ==
  /\ up /\ busFaults < MaxBusFaults /\ busFaults' = busFaults + 1
  /\ up' = FALSE /\ owner' = 0
  /\ UNCHANGED <<pageSide, threadSide, lost>>

DaemonStarts ==
  /\ ~up /\ up' = TRUE
  /\ UNCHANGED <<pageSide, threadSide, lost, owner, busFaults>>

(* Settings is closed or crashes: its connection closes with it.           *)
SettingsDies ==
  /\ alive /\ busFaults < MaxBusFaults /\ busFaults' = busFaults + 1
  /\ alive' = FALSE
  /\ lost' = lost \cup ({conn} \ {0}) /\ conn' = 0
  /\ UNCHANGED <<tab, identify, identifySent, channel, clicks, wanted, held, daemonSide>>

IdentifyNext ==
  \/ Toggle \/ SwitchTab \/ PollOrStatus \/ Take \/ Renew
  \/ OwnerGone \/ SafetyNet \/ DaemonStops \/ DaemonStarts \/ SettingsDies

(* The timers, the thread, the bus and the daemon's event loop run; systemd *)
(* starts the daemon again.                                                *)
IdentifyFairness ==
  /\ WF_identifyVars(PollOrStatus) /\ WF_identifyVars(Take) /\ WF_identifyVars(Renew)
  /\ WF_identifyVars(OwnerGone) /\ WF_identifyVars(SafetyNet) /\ WF_identifyVars(DaemonStarts)

(* The keypad does not stay mute: once the page is left, or Settings dies, *)
(* identify mode ends for good, whichever calls are lost and whenever the  *)
(* daemon starts again; and while the user keeps identifying, it is on.    *)
IdentifyFollows ==
  /\ <>[](~tab \/ ~alive) => <>[](owner = 0)
  /\ <>[](tab /\ identify /\ alive) => <>[](owner # 0)
=============================================================================
