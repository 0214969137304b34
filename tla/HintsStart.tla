----------------------------- MODULE HintsStart -----------------------------
(***************************************************************************)
(* How the hints daemon comes up (hints/src/main.rs, acquire_socket and    *)
(* main of bin/daemon.rs) and how Settings switches it on and off          *)
(* (settings/src/hints.rs).  The socket's path is all that keeps a second  *)
(* daemon away; a command that finds none starts one.                      *)
(***************************************************************************)
EXTENDS Integers, SequencesExt, FiniteSetsExt

CONSTANTS
    Daemons,       \* processes that may be started
    Shells,        \* key bindings that run smpl-hints, one command at a time each
    MaxCalls,      \* bound: commands and changes of the setting
    MaxStartFaults \* bound: starts that fail, daemons that die

NoPath == "none"
ASSUME StartAssumption == NoPath \notin Daemons /\ {MaxCalls, MaxStartFaults} \subseteq Nat

SettingsApp == "settings"
Callers == Shells \cup {SettingsApp}

VARIABLES
    path,     \* what the socket's path leads to: a daemon's listener, or None
    hintsd,   \* where each daemon is
    config,   \* whether hints are enabled, as each daemon read it
    backlog,  \* commands a daemon's listener holds, with who waits for the answer
    caller,   \* each caller: what it does, its command, and what it has yet to run
    enabled,  \* hints.toml
    met,    \* history: two daemons were at one path that was left behind
    calls, startFaults

startVars == <<path, hintsd, config, backlog, caller, enabled, met, calls, startFaults>>

Resting == [at |-> "rest", cmd |-> "none", then |-> <<>>]
Listening == {d \in Daemons : hintsd[d] \in {"load", "up"}}
Looking == {d \in Daemons : hintsd[d] \in {"look", "probe", "remove", "bind"}}
New == {d \in Daemons : hintsd[d] = "new"}
Reached == path \in Listening

HintsStartInit ==
    /\ path = NoPath /\ enabled = TRUE /\ met = FALSE
    /\ hintsd = [d \in Daemons |-> "new"] /\ config = [d \in Daemons |-> TRUE]
    /\ backlog = [d \in Daemons |-> <<>>]
    /\ caller = [c \in Callers |-> Resting]
    /\ calls = 0 /\ startFaults = 0

-----------------------------------------------------------------------------
(***************************************************************************)
(* acquire_socket, one step per system call, and what follows it.          *)
(***************************************************************************)
Goes(d, from, to) == hintsd[d] = from /\ hintsd' = [hintsd EXCEPT ![d] = to]
DaemonOnly == UNCHANGED <<config, backlog, caller, enabled, calls, startFaults>>

LookAtPath(d) ==
    /\ Goes(d, "look", IF path = NoPath THEN "bind" ELSE "probe")
    /\ UNCHANGED <<path, met>> /\ DaemonOnly

(* Mutant: a path that is there is taken for a stale one. *)
ProbeNothing(d) == Goes(d, "probe", "remove") /\ UNCHANGED <<path, met>> /\ DaemonOnly

(* A connection that succeeds ends the start. *)
Probe(d) ==
    /\ Goes(d, "probe", IF Reached THEN "gone" ELSE "remove")
    /\ met' = (met \/ (~Reached /\ Looking # {d}))
    /\ UNCHANGED path /\ DaemonOnly

RemoveStale(d) == Goes(d, "remove", "bind") /\ path' = NoPath /\ UNCHANGED met /\ DaemonOnly
Bind(d) ==
    /\ Goes(d, "bind", IF path = NoPath THEN "load" ELSE "gone")
    /\ path' = IF path = NoPath THEN d ELSE path
    /\ UNCHANGED met /\ DaemonOnly

(* Mutant: the configuration is read before the socket can be reached. *)
LoadEarly(d) ==
    /\ Goes(d, "load", "up")
    /\ UNCHANGED <<path, config, backlog, caller, enabled, met, calls, startFaults>>

(* The overlay, the virtual pointer, and only then the configuration. *)
Load(d) ==
    /\ Goes(d, "load", "up")
    /\ config' = [config EXCEPT ![d] = enabled]
    /\ UNCHANGED <<path, backlog, caller, enabled, met, calls, startFaults>>

(* A start that fails later, and a crash, leave the path behind; those who
   wait get an error. *)
Waiters(d) == {c \in Callers : \E n \in DOMAIN backlog[d] : backlog[d][n].from = c /\ caller[c].at = "wait"}
NextOf(c) ==
    IF caller[c].then = <<>> THEN Resting
    ELSE [at |-> "connect", cmd |-> Head(caller[c].then), then |-> Tail(caller[c].then)]
Released(cs) == [c \in Callers |-> IF c \in cs THEN NextOf(c) ELSE caller[c]]

DaemonDies(d) ==
    /\ hintsd[d] \in {"load", "up"} /\ startFaults < MaxStartFaults
    /\ hintsd' = [hintsd EXCEPT ![d] = "gone"] /\ backlog' = [backlog EXCEPT ![d] = <<>>]
    /\ caller' = Released(Waiters(d))
    /\ startFaults' = startFaults + 1
    /\ UNCHANGED <<path, config, enabled, met, calls>>

(* The IPC thread has the main thread answer a command. *)
Serve(d) ==
    /\ hintsd[d] = "up" /\ backlog[d] # <<>>
    /\ LET request == Head(backlog[d])
           quits == request.cmd = "quit"
       IN /\ config' = IF request.cmd = "reload" THEN [config EXCEPT ![d] = enabled] ELSE config
          /\ hintsd' = IF quits THEN [hintsd EXCEPT ![d] = "gone"] ELSE hintsd
          /\ backlog' = [backlog EXCEPT ![d] = IF quits THEN <<>> ELSE Tail(@)]
          /\ caller' = Released(IF quits THEN Waiters(d)
                                ELSE {c \in {request.from} : caller[c].at = "wait"})
    /\ UNCHANGED <<path, enabled, met, calls, startFaults>>

-----------------------------------------------------------------------------
(***************************************************************************)
(* smpl-hints: connect, or start a daemon and try again for a while.  The  *)
(* daemon goes on with a command whose caller has given up.                *)
(***************************************************************************)
Calls(c, cmds) ==
    /\ caller[c] = Resting /\ calls < MaxCalls /\ calls' = calls + 1
    /\ caller' = [caller EXCEPT ![c] = [at |-> "connect", cmd |-> Head(cmds), then |-> Tail(cmds)]]

Run(c) ==
    /\ \E cmd \in {"click", "reload", "quit"} : Calls(c, <<cmd>>)
    /\ UNCHANGED <<path, hintsd, config, backlog, enabled, met, startFaults>>

(* set_enabled: the file, a reload, and a quit when hints are switched off. *)
SetEnabled ==
    /\ \E value \in BOOLEAN :
        /\ enabled' = value
        /\ Calls(SettingsApp, IF value THEN <<"reload">> ELSE <<"reload", "quit">>)
    /\ UNCHANGED <<path, hintsd, config, backlog, met, startFaults>>

Send(c) ==
    /\ backlog' = [backlog EXCEPT ![path] = Append(@, [cmd |-> caller[c].cmd, from |-> c])]
    /\ caller' = [caller EXCEPT ![c].at = "wait"]
    /\ UNCHANGED <<path, hintsd, config, enabled, met, calls, startFaults>>

TryConnect(c) ==
    /\ caller[c].at = "connect"
    /\ \/ Reached /\ Send(c)
       \/ /\ ~Reached
          /\ New # {} /\ Goes(CHOOSE d \in New : TRUE, "new", "look")
          /\ met' = (met \/ \E e \in Daemons : hintsd[e] = "remove")
          /\ caller' = [caller EXCEPT ![c].at = "retry"]
          /\ UNCHANGED <<path, config, backlog, enabled, calls, startFaults>>

Retry(c) == caller[c].at = "retry" /\ Reached /\ Send(c)

(* 30 tries are over, or the answer did not come within two seconds. *)
GiveUp(c) ==
    /\ caller[c].at = "wait" \/ (caller[c].at = "retry" /\ ~Reached)
    /\ caller' = Released({c})
    /\ UNCHANGED <<path, hintsd, config, backlog, enabled, met, calls, startFaults>>

HintsStartNext ==
    \/ \E d \in Daemons :
        LookAtPath(d) \/ Probe(d) \/ RemoveStale(d) \/ Bind(d) \/ Load(d) \/ DaemonDies(d) \/ Serve(d)
    \/ \E c \in Callers : TryConnect(c) \/ Retry(c) \/ GiveUp(c)
    \/ \E c \in Shells : Run(c)
    \/ SetEnabled

-----------------------------------------------------------------------------
StartTypeOK ==
    /\ path \in Daemons \cup {NoPath} /\ config \in [Daemons -> BOOLEAN]
    /\ \A d \in Daemons : /\ hintsd[d] \in {"new", "look", "probe", "remove", "bind", "load", "up", "gone"}
                          /\ backlog[d] # <<>> => d \in Listening
    /\ \A c \in Callers : caller[c].at \in {"rest", "connect", "retry", "wait"}

(* "Enforce single-instance via the socket path" (bin/daemon.rs main). *)
OneDaemon == Cardinality(Listening) <= 1

(* The same, unless two of them met at a path that a dead one had left: any
   number of commands may start daemons at once where there is none. *)
OneDaemonUnlessTheyMet == ~met => OneDaemon

(* Once Settings is through, the daemon that commands reach knows what the
   file says, even if it came up meanwhile and its answers were late: all
   that is left to do is in its own backlog. *)
DaemonKnowsTheSetting ==
    (/\ caller[SettingsApp] = Resting /\ path \in Daemons /\ hintsd[path] = "up"
     /\ ~\E n \in DOMAIN backlog[path] : backlog[path][n].cmd \in {"reload", "quit"}) =>
        config[path] = enabled
=============================================================================
