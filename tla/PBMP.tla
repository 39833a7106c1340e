-------------------------------- MODULE PBMP --------------------------------
(***************************************************************************)
(* internal/pbmp/server.go: what the management server knows of the IRC    *)
(* session, and its requests that act: channels.join, channels.part,       *)
(* channels.list and the modules requests.  Each management connection has *)
(* a goroutine and sends one request; a request takes s.mu only to look    *)
(* and again to record, and runs the callbacks of the session in between.  *)
(*                                                                         *)
(* Channel names are compared folded by the code; here they are folded.    *)
(* Requests that only report (info, config, logs, metrics) are left out.   *)
(***************************************************************************)
EXTENDS Naturals, FiniteSets

CONSTANTS Channel, Configured, \* channels, and those of ENGO_CHANNELS
          Conn,               \* management connections
          Session, None       \* IRC sessions are counted from 1; None is nil

ASSUME PBMPAssumption == /\ Configured \subseteq Channel /\ IsFiniteSet(Configured)
                         /\ Session \subseteq Nat /\ None \notin Session
                         /\ None \notin Channel

VARIABLES connected, joined, parting, wanted, dynamic,  \* of State
          actions,    \* the session whose Join and Part are set, or None
          lifecycle,  \* the session whose module action is set, or None
          req         \* what each connection is doing

channels == <<joined, parting, wanted, dynamic>>
pbmpVars == <<connected, channels, actions, lifecycle, req>>

Method == {"join", "part", "list", "reload"}
Idle   == [at |-> "idle", method |-> None, chan |-> None, session |-> None]

PBMPTypeOK ==
  /\ connected \in BOOLEAN
  /\ joined \subseteq Channel /\ parting \subseteq Channel
  /\ wanted \subseteq Channel /\ dynamic \subseteq Channel
  /\ actions \in Session \cup {None} /\ lifecycle \in Session \cup {None}
  /\ req \in [Conn -> {Idle} \cup
                 [at : {"begin", "call", "record", "wanted", "reload", "reloading"},
                  method : Method, chan : Channel, session : Session \cup {None}]]

PBMPInit ==
  /\ connected = FALSE /\ joined = {} /\ parting = {}
  /\ wanted = Configured /\ dynamic = {}
  /\ actions = None /\ lifecycle = None
  /\ req = [c \in Conn |-> Idle]
-----------------------------------------------------------------------------
(* Mutant: what was joined is kept for the next session. *)
MutantForget == UNCHANGED <<joined, parting>>
-----------------------------------------------------------------------------
(* SetConnected(false) forgets the channels after the flag is down. *)
Forget == joined' = {} /\ parting' = {}

(* A JOIN, PART or KICK of the bot itself (Observe). *)
Observe(cmd, c) ==
  /\ joined' = IF cmd = "JOIN" THEN joined \cup {c} ELSE joined \ {c}
  /\ parting' = parting \ {c}

Goto(c, place) == req' = [req EXCEPT ![c].at = place]
Answered(c)    == req' = [req EXCEPT ![c] = Idle]

Request(c, method, ch) ==
  /\ req[c].at = "idle"
  /\ req' = [req EXCEPT ![c] = [at |-> "begin", method |-> method, chan |-> ch, session |-> None]]
  /\ UNCHANGED <<connected, channels, actions, lifecycle>>

(* The callbacks as they are now; nil ones, or a session that is over, end *)
(* the request.  ChannelState needs s.wanted for a channel that is neither *)
(* joined nor parting, and reads it after it has given s.mu back.          *)
Look(c) ==
  /\ req[c].at = "begin"
  /\ CASE req[c].method = "reload" /\ lifecycle # None ->
            req' = [req EXCEPT ![c].at = "reload", ![c].session = lifecycle]
       [] req[c].method = "list" /\ connected
            /\ (Configured \cup dynamic) \ (joined \cup parting) # {} -> Goto(c, "wanted")
       [] req[c].method \in {"join", "part"} /\ connected /\ actions # None ->
            req' = [req EXCEPT ![c].at = "call", ![c].session = actions]
       [] OTHER -> Answered(c)
  /\ UNCHANGED <<connected, channels, actions, lifecycle>>

ReadWanted(c) ==
  /\ req[c].at = "wanted"
  /\ Answered(c)
  /\ UNCHANGED <<connected, channels, actions, lifecycle>>

(* A part of a configured channel makes it unwanted, unless it was ever    *)
(* joined by request.                                                      *)
WritesWanted(c) == \/ req[c].method = "join"
                   \/ req[c].method = "part" /\ req[c].chan \in Configured \ dynamic

(* The call succeeded: what it asked for is recorded, whatever the server  *)
(* has answered in the meantime.                                           *)
Record(c) ==
  LET ch == req[c].chan IN
  /\ req[c].at = "record"
  /\ IF req[c].method = "join"
       THEN /\ dynamic' = dynamic \cup {ch} /\ wanted' = wanted \cup {ch}
            /\ parting' = parting \ {ch} /\ UNCHANGED joined
       ELSE /\ wanted' = IF WritesWanted(c) THEN wanted \ {ch} ELSE wanted
            /\ joined' = joined \ {ch} /\ parting' = parting \cup {ch}
            /\ UNCHANGED dynamic
  /\ Answered(c)
  /\ UNCHANGED <<connected, actions, lifecycle>>

(* A map written and read at the same time: the Go runtime may end the     *)
(* process.                                                                *)
Races(c, d) == req[c].at = "record" /\ WritesWanted(c) /\ req[d].at = "wanted"
=============================================================================
