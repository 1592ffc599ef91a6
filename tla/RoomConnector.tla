--------------------------- MODULE RoomConnector ---------------------------
(***************************************************************************)
(* The room sessions of one dispatch in an agent worker:                   *)
(* LiveKitAgentRoomConnector of agent-worker-node/src/room-connector.ts    *)
(* and of agent-worker-python/livekit_room.py.                             *)
(*                                                                         *)
(* Joins are numbered in the order in which they begin, and join j uses    *)
(* room j.  A connection is awaited; what follows its outcome runs before  *)
(* anything else.  The room itself is the LiveKit SDK's: external.         *)
(***************************************************************************)
EXTENDS Naturals

CONSTANT MaxJoins    \* bound on the joins of the dispatch

ASSUME RoomAssumption == MaxJoins \in Nat

VARIABLES
    connector,       \* "node" or "python", never changes
    room,            \* state of each room
    closing,         \* rooms on which disconnect() is under way
    attended,        \* Node: rooms with the Disconnected and abort listeners
    signalled,       \* joins whose signal or cancel event has fired
    session,         \* the room that sessions has for the dispatch, 0 for none
    overlapped,      \* history: joins that ran at the same time as another
    superseded,      \* history: rooms whose session another join overwrote
    unawaited,       \* history: Python connections whose join was cancelled
    fell             \* history: rooms that the network took down

roomVars == <<connector, room, closing, attended, signalled, session,
              overlapped, superseded, unawaited, fell>>

Joins == 1 .. MaxJoins

RoomTypeOK ==
    /\ connector \in {"node", "python"}
    /\ room \in [Joins -> {"unused", "connecting", "up", "down"}]
    /\ closing \subseteq Joins
    /\ attended \subseteq Joins
    /\ signalled \subseteq Joins
    /\ session \in 0 .. MaxJoins
    /\ overlapped \subseteq Joins
    /\ superseded \subseteq Joins
    /\ unawaited \subseteq Joins
    /\ fell \subseteq Joins

RoomInit ==
    /\ connector \in {"node", "python"}
    /\ room = [j \in Joins |-> "unused"]
    /\ closing = {}
    /\ attended = {}
    /\ signalled = {}
    /\ session = 0
    /\ overlapped = {}
    /\ superseded = {}
    /\ unawaited = {}
    /\ fell = {}

RoomIs(j, state) == room[j] = state
RoomTo(j, state) == room' = [room EXCEPT ![j] = state]
IsNode == connector = "node"
IsPython == connector = "python"

-----------------------------------------------------------------------------
(* Joining. *)

\* The session is looked up before the connection is awaited.
Join(j) ==
    /\ RoomIs(j, "unused") /\ \A i \in 1 .. j - 1 : ~RoomIs(i, "unused")
    /\ session = 0
    /\ RoomTo(j, "connecting")
    /\ attended' = IF IsNode THEN attended \cup {j} ELSE attended
    /\ LET others == {i \in Joins : RoomIs(i, "connecting") /\ i \notin unawaited}
       IN  overlapped' = IF others = {} THEN overlapped ELSE overlapped \cup others \cup {j}
    /\ UNCHANGED <<connector, closing, signalled, session, superseded, unawaited, fell>>

\* connect() succeeds and the session is stored, whatever is stored there.
Connected(j) ==
    /\ RoomIs(j, "connecting") /\ j \notin signalled /\ j \notin unawaited
    /\ RoomTo(j, "up")
    /\ session' = j
    /\ superseded' = superseded \cup ({session} \ {0})
    /\ UNCHANGED <<connector, closing, attended, signalled, overlapped, unawaited, fell>>

\* It succeeds although the join was cancelled: the room is closed again.
ConnectedTooLate(j) ==
    /\ RoomIs(j, "connecting") /\ j \in signalled
    /\ RoomTo(j, "up")
    /\ closing' = closing \cup {j}
    /\ attended' = attended \ {j}
    /\ UNCHANGED <<connector, signalled, session, overlapped, superseded, unawaited, fell>>

\* It succeeds and nobody is there to disconnect.
ConnectedUnawaited(j) ==
    /\ RoomIs(j, "connecting") /\ j \in unawaited
    /\ RoomTo(j, "up")
    /\ UNCHANGED <<connector, closing, attended, signalled, session, overlapped,
                   superseded, unawaited, fell>>

ConnectFails(j) ==
    /\ RoomIs(j, "connecting")
    /\ RoomTo(j, "down")
    /\ attended' = attended \ {j}
    /\ UNCHANGED <<connector, closing, signalled, session, overlapped, superseded,
                   unawaited, fell>>

\* The signal fires while the room connects.  Node: close() runs, and its
\* disconnect() does nothing yet.  Python: the connection is cancelled, if
\* it has not just succeeded.
JoinCancelled(j) ==
    /\ RoomIs(j, "connecting") /\ j \notin signalled /\ j \notin unawaited
    /\ signalled' = signalled \cup {j}
    /\ attended' = attended \ {j}
    /\ \/ UNCHANGED room
       \/ IsPython /\ RoomTo(j, "down")
    /\ UNCHANGED <<connector, closing, session, overlapped, superseded, unawaited, fell>>

\* Python: the task of join() itself is cancelled, by a shutdown or the
\* handler's deadline.  asyncio.wait does not cancel what it waits for.
JoinTaskCancelled(j) ==
    /\ IsPython /\ RoomIs(j, "connecting") /\ j \notin signalled
    /\ unawaited' = unawaited \cup {j}
    /\ UNCHANGED <<connector, room, closing, attended, signalled, session, overlapped,
                   superseded, fell>>

-----------------------------------------------------------------------------
(* Leaving. *)

\* Mutation: close() deletes the session without comparing its room.
CloseForgetsSession(j) ==
    /\ session' = 0
    /\ closing' = closing \cup {j}
    /\ attended' = attended \ {j}

\* Node's close(): the session goes if it is still this room's.
Close(j) ==
    /\ session' = IF session = j THEN 0 ELSE session
    /\ closing' = closing \cup {j}
    /\ attended' = attended \ {j}

Returned(j) == RoomIs(j, "up") /\ j \notin closing /\ j \notin unawaited

\* Node: the caller closes its session, or leave() the stored one.
NodeCloses(j) ==
    /\ IsNode /\ Returned(j)
    /\ Close(j)
    /\ UNCHANGED <<connector, room, signalled, overlapped, superseded, unawaited, fell>>

\* Node: the abort listener closes the room that was joined.
NodeAborts(j) ==
    /\ IsNode /\ Returned(j) /\ j \in attended /\ j \notin signalled
    /\ signalled' = signalled \cup {j}
    /\ Close(j)
    /\ UNCHANGED <<connector, room, overlapped, superseded, unawaited, fell>>

\* Python: leave() pops what is stored, and so does the close() of any session.
PythonLeaves ==
    /\ IsPython /\ session # 0
    /\ session' = 0
    /\ closing' = IF RoomIs(session, "up") THEN closing \cup {session} ELSE closing
    /\ UNCHANGED <<connector, room, attended, signalled, overlapped, superseded,
                   unawaited, fell>>

\* disconnect() is done; its caller has seen to the session before.
Disconnected(j) ==
    /\ RoomIs(j, "up") /\ j \in closing
    /\ RoomTo(j, "down")
    /\ closing' = closing \ {j}
    /\ UNCHANGED <<connector, attended, signalled, session, overlapped, superseded,
                   unawaited, fell>>

\* The room goes down by itself.  Only the Node connector listens.
ConnectionLost(j) ==
    /\ RoomIs(j, "up")
    /\ RoomTo(j, "down")
    /\ closing' = closing \ {j}
    /\ fell' = fell \cup {j}
    /\ session' = IF j \in attended /\ session = j THEN 0 ELSE session
    /\ attended' = attended \ {j}
    /\ UNCHANGED <<connector, signalled, overlapped, superseded, unawaited>>

RoomNext ==
    \/ \E j \in Joins :
        \/ Join(j) \/ Connected(j) \/ ConnectedTooLate(j) \/ ConnectedUnawaited(j)
        \/ ConnectFails(j) \/ JoinCancelled(j) \/ JoinTaskCancelled(j)
        \/ NodeCloses(j) \/ NodeAborts(j) \/ Disconnected(j) \/ ConnectionLost(j)
    \/ PythonLeaves

RoomSpec == RoomInit /\ [][RoomNext]_roomVars

-----------------------------------------------------------------------------
(* Properties. *)

Open(j) == RoomIs(j, "up") /\ j \notin closing

\* The stored session is an open room; only the Python connector, which does
\* not listen, keeps one whose connection was lost.  Every other open room was
\* joined at the same time as the one that overwrote it, or, in Python, its
\* join was cancelled: no other close, abort or disconnection leaves a room
\* that leave() does not find (room-connector.ts:26-66, livekit_room.py:40-89).
RoomsAccounted ==
    /\ RoomTypeOK
    /\ session # 0 => Open(session) \/ (IsPython /\ session \in fell)
    /\ \A j \in Joins : Open(j) /\ session # j => j \in superseded \cup unawaited
    /\ superseded \subseteq overlapped
=============================================================================
