-------------------------- MODULE SequentialProofs --------------------------
(***************************************************************************)
(* Components that need nothing of the streams' framing.                   *)
(*                                                                         *)
(* The programs that drive real MsQuic close every handle after the ones   *)
(* opened under it, leave nothing behind when main returns, and report     *)
(* success only for an answered query: whichever programs are run, however *)
(* long a wait polls and in however many events the response arrives.      *)
(*                                                                         *)
(* The minimal responder answers every request as it should, for every     *)
(* limit and buffer size.                                                  *)
(*                                                                         *)
(* The event queue's ring is a bounded first-in first-out queue, for every *)
(* capacity whose double fits the index word.                              *)
(*                                                                         *)
(* The send reservation of the Pulse table follows the context it was made *)
(* for, for every capacity, set of stream ids and initial table.           *)
(***************************************************************************)
EXTENDS SmokeSession, MinimalWorker, EventQueue, PulseSend, SequenceTheorems,
        WellFoundedInduction, TLAPS

(* Where main stands.  Before a step of the setup every handle of an       *)
(* earlier step is open; before a step of the cleanup every handle of an   *)
(* earlier step is not; a program that has yet to call MsQuicOpen2, or has *)
(* returned, has no API table.                                             *)
SetupPosition ==
    pc.stage = "setup" =>
        /\ pc.step \in 1 .. Len(Setup(program))
        /\ \A i \in 1 .. pc.step - 1 :
              Setup(program)[i].kind = "open" => IsOpen(Setup(program)[i].what)
        /\ pc.step = 1 => ~IsOpen("api")

CleanupPosition ==
    pc.stage = "cleanup" =>
        /\ pc.step \in 1 .. Len(Cleanup(program))
        /\ \A i \in 1 .. pc.step - 1 : ~IsOpen(Cleanup(program)[i])

ExitPosition == pc.stage = "exited" => ~IsOpen("api")

(* The small programs have no client.                                      *)
ServerOnly == program # "stream" => ~IsOpen("client_registration")

(* A callback between its two critical sections holds its connection open. *)
CheckingHolds == checking => IsOpen("client_connection")

(* What the flags and the exit code tell about the response.               *)
Reported ==
    /\ flags.server_send_complete => net.response = "done"
    /\ program = "stream" /\ result = 0 =>
          flags.server_send_complete /\ flags.received = Chunks

(* The records of TypeOK, and those it leaves open.                        *)
Positioned == [stage : {"setup", "cleanup", "exited"}, step : Nat \ {0}]

Flags ==
    [failed : BOOLEAN, client_connected : BOOLEAN, client_stream_started : BOOLEAN,
     server_send_complete : BOOLEAN, client_response_finished : BOOLEAN,
     received : 0 .. Chunks]

Nets ==
    [listening : BOOLEAN,
     link : {"idle", "starting", "up", "refused", "down"},
     stream : {"idle", "starting", "started", "failed"},
     query : {"none", "pending", "done"},
     response : {"none", "pending", "failed", "done", "canceled"},
     lost : 0 .. Chunks]

SessionTypes ==
    /\ TypeOK
    /\ program \in Programs
    /\ faulty \in BOOLEAN
    /\ pc \in Positioned
    /\ net \in Nets

(* What depends on main's position and the handles alone.                  *)
Positions ==
    /\ SetupPosition /\ CleanupPosition /\ ExitPosition
    /\ ChildrenClosedFirst /\ ServerOnly

SessionInv ==
    /\ SessionTypes
    /\ Positions
    /\ CheckingHolds
    /\ Reported

----------------------------------------------------------------------------
(* The programs' texts.                                                    *)

(* Main opens neither of the server's handles.                             *)
ServerSide == {"server_connection", "server_stream"}

(* Step k of the setup S opens a handle only under one opened before, and  *)
(* it is not the API table.                                                *)
StepShape(S, k) ==
    /\ S[k].what # "api"
    /\ S[k].kind = "open" =>
          /\ S[k].what \in DOMAIN Parent \ ServerSide
          /\ \E i \in 1 .. k - 1 : S[i] = Open(Parent[S[k].what])

(* What the proofs use of the setup of program p.                          *)
SetupShape(p) ==
    LET S == Setup(p)
    IN  /\ Len(S) \in Nat /\ Len(S) > 1
        /\ S[1] = Open("api")
        /\ S[Len(S)].kind = "call" /\ S[Len(S)].what \in {"verdict", "pass"}
        /\ \A k \in 2 .. Len(S) : StepShape(S, k)
        /\ \A k \in 1 .. Len(S) :
              /\ p # "stream" => S[k].what # "client_registration"
              /\ p = "stream" => S[k].what # "pass"

(* What the proofs use of the cleanup of program p: a handle's children    *)
(* come before it, but for the connection main never sees and the client's *)
(* registration in a program without client.                               *)
CleanupShape(p) ==
    LET C == Cleanup(p)
    IN  /\ Len(C) \in Nat \ {0}
        /\ C[Len(C)] = "api"
        /\ \A k \in 1 .. Len(C) :
              /\ C[k] \in Handle \ ServerSide
              /\ \A h \in DOMAIN Parent :
                    Parent[h] = C[k] =>
                        \/ \E i \in 1 .. k - 1 : C[i] = h
                        \/ h = "server_connection" /\ C[k] = "server_registration"
                        \/ h = "client_registration" /\ p # "stream"

(* The handles are the ten the programs name.                              *)
LEMMA Handles ==
    /\ DOMAIN Parent =
          {"server_registration", "client_registration", "server_configuration",
           "client_configuration", "listener", "server_connection", "client_connection",
           "client_stream", "server_stream"}
    /\ Parent["server_registration"] = "api" /\ Parent["client_registration"] = "api"
    /\ Parent["server_configuration"] = "server_registration"
    /\ Parent["client_configuration"] = "client_registration"
    /\ Parent["listener"] = "server_registration"
    /\ Parent["server_connection"] = "server_registration"
    /\ Parent["client_connection"] = "client_registration"
    /\ Parent["client_stream"] = "client_connection"
    /\ Parent["server_stream"] = "server_connection"
BY Zenon DEF Parent

(* The two halves of the stream program's setup are sequences of nine.     *)
LEMMA ServerSteps ==
    ASSUME NEW S,
           Open("api") \in S, Open("server_registration") \in S,
           Open("client_registration") \in S, Open("server_configuration") \in S,
           Open("client_configuration") \in S, Call("credentials") \in S,
           Open("listener") \in S, Call("listener_start") \in S, Call("local_address") \in S
    PROVE  ServerSetup \in Seq(S) /\ Len(ServerSetup) = 9
BY DEF ServerSetup

LEMMA ClientSteps ==
    ASSUME NEW S,
           Open("client_connection") \in S, Call("connection_start") \in S,
           Wait("client_connected") \in S, Open("client_stream") \in S,
           Call("stream_start") \in S, Wait("client_stream_started") \in S,
           Call("stream_send") \in S, Wait("server_response") \in S, Call("verdict") \in S
    PROVE  ClientSetup \in Seq(S) /\ Len(ClientSetup) = 9
BY DEF ClientSetup

(* Two sequences of nine, one after the other.                             *)
LEMMA Joined ==
    ASSUME NEW S, NEW s \in Seq(S), NEW t \in Seq(S), Len(s) = 9, Len(t) = 9
    PROVE  /\ Len(s \o t) = 18
           /\ \A k \in 1 .. 9 : (s \o t)[k] = s[k]
           /\ \A k \in 10 .. 18 : (s \o t)[k] = t[k - 9]
<1>1. Len(s \o t) = Len(s) + Len(t)
  BY ConcatProperties, Zenon
<1>2. \A i \in 1 .. Len(s) + Len(t) :
         (s \o t)[i] = IF i <= Len(s) THEN s[i] ELSE t[i - Len(s)]
  BY ConcatProperties, Zenon
<1> QED
  BY <1>1, <1>2

(* The stream program's setup is the server's steps and then the client's. *)
LEMMA StreamSteps ==
    LET S == Setup("stream")
    IN  /\ Len(S) = 18
        /\ S[1] = Open("api") /\ S[2] = Open("server_registration")
        /\ S[3] = Open("client_registration") /\ S[4] = Open("server_configuration")
        /\ S[5] = Open("client_configuration") /\ S[6] = Call("credentials")
        /\ S[7] = Open("listener") /\ S[8] = Call("listener_start")
        /\ S[9] = Call("local_address") /\ S[10] = Open("client_connection")
        /\ S[11] = Call("connection_start") /\ S[12] = Wait("client_connected")
        /\ S[13] = Open("client_stream") /\ S[14] = Call("stream_start")
        /\ S[15] = Wait("client_stream_started") /\ S[16] = Call("stream_send")
        /\ S[17] = Wait("server_response") /\ S[18] = Call("verdict")
<1> DEFINE Steps == {Open("api"), Open("server_registration"), Open("client_registration"),
                     Open("server_configuration"), Open("client_configuration"),
                     Call("credentials"), Open("listener"), Call("listener_start"),
                     Call("local_address"), Open("client_connection"), Call("connection_start"),
                     Wait("client_connected"), Open("client_stream"), Call("stream_start"),
                     Wait("client_stream_started"), Call("stream_send"), Wait("server_response"),
                     Call("verdict")}
<1>1. ServerSetup \in Seq(Steps) /\ Len(ServerSetup) = 9
  BY ServerSteps
<1>2. ClientSetup \in Seq(Steps) /\ Len(ClientSetup) = 9
  BY ClientSteps
<1> HIDE DEF Steps
<1>3. Setup("stream") = ServerSetup \o ClientSetup
  BY Zenon DEF Setup
<1>4. /\ Len(ServerSetup \o ClientSetup) = 18
      /\ \A k \in 1 .. 9 : (ServerSetup \o ClientSetup)[k] = ServerSetup[k]
      /\ \A k \in 10 .. 18 : (ServerSetup \o ClientSetup)[k] = ClientSetup[k - 9]
  BY <1>1, <1>2, Joined
<1>5. Len(Setup("stream")) = 18
  BY <1>3, <1>4, Zenon
<1>6. \A k \in 1 .. 9 : Setup("stream")[k] = ServerSetup[k]
  BY <1>3, <1>4, Zenon
<1>7. \A k \in 10 .. 18 : Setup("stream")[k] = ClientSetup[k - 9]
  BY <1>3, <1>4, Zenon
<1>8. /\ Setup("stream")[10] = ClientSetup[1] /\ Setup("stream")[11] = ClientSetup[2]
      /\ Setup("stream")[12] = ClientSetup[3] /\ Setup("stream")[13] = ClientSetup[4]
      /\ Setup("stream")[14] = ClientSetup[5] /\ Setup("stream")[15] = ClientSetup[6]
      /\ Setup("stream")[16] = ClientSetup[7] /\ Setup("stream")[17] = ClientSetup[8]
      /\ Setup("stream")[18] = ClientSetup[9]
  BY <1>7
<1>9. /\ ServerSetup[1] = Open("api") /\ ServerSetup[2] = Open("server_registration")
      /\ ServerSetup[3] = Open("client_registration")
      /\ ServerSetup[4] = Open("server_configuration")
      /\ ServerSetup[5] = Open("client_configuration") /\ ServerSetup[6] = Call("credentials")
      /\ ServerSetup[7] = Open("listener") /\ ServerSetup[8] = Call("listener_start")
      /\ ServerSetup[9] = Call("local_address")
  BY Zenon DEF ServerSetup
<1>10. /\ ClientSetup[1] = Open("client_connection") /\ ClientSetup[2] = Call("connection_start")
       /\ ClientSetup[3] = Wait("client_connected") /\ ClientSetup[4] = Open("client_stream")
       /\ ClientSetup[5] = Call("stream_start") /\ ClientSetup[6] = Wait("client_stream_started")
       /\ ClientSetup[7] = Call("stream_send") /\ ClientSetup[8] = Wait("server_response")
       /\ ClientSetup[9] = Call("verdict")
  BY Zenon DEF ClientSetup
<1> QED
  BY <1>5, <1>6, <1>8, <1>9, <1>10

(* A step that is no opening, and one under the handle of step i.          *)
LEMMA OtherStep ==
    ASSUME NEW S, NEW k, S[k].kind # "open", S[k].what # "api"
    PROVE  StepShape(S, k)
BY Zenon DEF StepShape

LEMMA OpeningStep ==
    ASSUME NEW S, NEW k \in Nat, NEW h \in DOMAIN Parent \ ServerSide,
           NEW i \in 1 .. k - 1, h # "api",
           S[k] = Open(h), S[i] = Open(Parent[h])
    PROVE  StepShape(S, k)
<1>1. S[k].what = h
  BY DEF Open
<1> QED
  BY <1>1, Zenon DEF StepShape

(* The shape of a setup from its steps.                                    *)
LEMMA ShapeFromSteps ==
    ASSUME NEW p, NEW n \in Nat, n > 1, Len(Setup(p)) = n, Setup(p)[1] = Open("api"),
           Setup(p)[n].kind = "call", Setup(p)[n].what \in {"verdict", "pass"},
           \A k \in 2 .. n : StepShape(Setup(p), k),
           p # "stream" => \A k \in 1 .. n : Setup(p)[k].what # "client_registration",
           p = "stream" => \A k \in 1 .. n : Setup(p)[k].what # "pass"
    PROVE  SetupShape(p)
BY Zenon DEF SetupShape

(* The stream program opens every handle under one it opened before.       *)
LEMMA StreamShape == SetupShape("stream")
<1> DEFINE S == Setup("stream")
<1>1. /\ Len(S) = 18
      /\ S[1] = Open("api")
      /\ S[2] = Open("server_registration")
      /\ S[3] = Open("client_registration")
      /\ S[4] = Open("server_configuration")
      /\ S[5] = Open("client_configuration")
      /\ S[6] = Call("credentials")
      /\ S[7] = Open("listener")
      /\ S[8] = Call("listener_start")
      /\ S[9] = Call("local_address")
      /\ S[10] = Open("client_connection")
      /\ S[11] = Call("connection_start")
      /\ S[12] = Wait("client_connected")
      /\ S[13] = Open("client_stream")
      /\ S[14] = Call("stream_start")
      /\ S[15] = Wait("client_stream_started")
      /\ S[16] = Call("stream_send")
      /\ S[17] = Wait("server_response")
      /\ S[18] = Call("verdict")
  BY StreamSteps, Zenon
<1> HIDE DEF S
<1>2. \A k \in {6, 8, 9, 11, 12, 14, 15, 16, 17, 18} : StepShape(S, k)
  <2>1. ASSUME NEW k \in {6, 8, 9, 11, 12, 14, 15, 16, 17, 18}
        PROVE  S[k].kind # "open" /\ S[k].what # "api"
    BY <1>1 DEF Call, Wait
  <2> QED
    BY <2>1, OtherStep, Zenon
<1>3. StepShape(S, 2)
  BY <1>1, Handles, OpeningStep DEF ServerSide
<1>4. StepShape(S, 3)
  BY <1>1, Handles, OpeningStep DEF ServerSide
<1>5. StepShape(S, 4)
  BY <1>1, Handles, OpeningStep DEF ServerSide
<1>6. StepShape(S, 5)
  BY <1>1, Handles, OpeningStep DEF ServerSide
<1>7. StepShape(S, 7)
  BY <1>1, Handles, OpeningStep DEF ServerSide
<1>8. StepShape(S, 10)
  BY <1>1, Handles, OpeningStep DEF ServerSide
<1>9. StepShape(S, 13)
  BY <1>1, Handles, OpeningStep DEF ServerSide
<1>10. \A k \in 2 .. 18 : StepShape(S, k)
  BY <1>2, <1>3, <1>4, <1>5, <1>6, <1>7, <1>8, <1>9
<1>11. \A k \in 1 .. 18 : S[k].what # "pass"
  BY <1>1 DEF Open, Call, Wait
<1>12. S[18].kind = "call" /\ S[18].what \in {"verdict", "pass"}
  BY <1>1 DEF Call
<1>13. 18 \in Nat /\ 18 > 1
  OBVIOUS
<1> QED
  BY <1>1, <1>10, <1>11, <1>12, <1>13, ShapeFromSteps, Zenon DEF S

(* So do the lifecycle and the listener program, which have no client.     *)
LEMMA LifecycleShape == SetupShape("lifecycle")
<1> DEFINE S == Setup("lifecycle")
<1>1. /\ Len(S) = 5
      /\ S[1] = Open("api")
      /\ S[2] = Open("server_registration")
      /\ S[3] = Open("server_configuration")
      /\ S[4] = Open("listener")
      /\ S[5] = Call("pass")
  BY Zenon DEF Setup, LifecycleSetup
<1> HIDE DEF S
<1>2. \A k \in {5} : StepShape(S, k)
  <2>1. ASSUME NEW k \in {5}
        PROVE  S[k].kind # "open" /\ S[k].what # "api"
    BY <1>1 DEF Call
  <2> QED
    BY <2>1, OtherStep, Zenon
<1>3. StepShape(S, 2)
  BY <1>1, Handles, OpeningStep DEF ServerSide
<1>4. StepShape(S, 3)
  BY <1>1, Handles, OpeningStep DEF ServerSide
<1>5. StepShape(S, 4)
  BY <1>1, Handles, OpeningStep DEF ServerSide
<1>6. \A k \in 2 .. 5 : StepShape(S, k)
  BY <1>2, <1>3, <1>4, <1>5
<1>7. \A k \in 1 .. 5 : S[k].what # "client_registration"
  BY <1>1 DEF Open, Call
<1>8. S[5].kind = "call" /\ S[5].what \in {"verdict", "pass"}
  BY <1>1 DEF Call
<1>9. 5 \in Nat /\ 5 > 1 /\ "lifecycle" # "stream"
  OBVIOUS
<1> QED
  BY <1>1, <1>6, <1>7, <1>8, <1>9, ShapeFromSteps, Zenon DEF S

LEMMA ListenerShape == SetupShape("listener")
<1> DEFINE S == Setup("listener")
<1>1. /\ Len(S) = 7
      /\ S[1] = Open("api")
      /\ S[2] = Open("server_registration")
      /\ S[3] = Open("server_configuration")
      /\ S[4] = Open("listener")
      /\ S[5] = Call("listener_start")
      /\ S[6] = Call("local_address")
      /\ S[7] = Call("pass")
  BY Zenon DEF Setup, ListenerSetup
<1> HIDE DEF S
<1>2. \A k \in {5, 6, 7} : StepShape(S, k)
  <2>1. ASSUME NEW k \in {5, 6, 7}
        PROVE  S[k].kind # "open" /\ S[k].what # "api"
    BY <1>1 DEF Call
  <2> QED
    BY <2>1, OtherStep, Zenon
<1>3. StepShape(S, 2)
  BY <1>1, Handles, OpeningStep DEF ServerSide
<1>4. StepShape(S, 3)
  BY <1>1, Handles, OpeningStep DEF ServerSide
<1>5. StepShape(S, 4)
  BY <1>1, Handles, OpeningStep DEF ServerSide
<1>6. \A k \in 2 .. 7 : StepShape(S, k)
  BY <1>2, <1>3, <1>4, <1>5
<1>7. \A k \in 1 .. 7 : S[k].what # "client_registration"
  BY <1>1 DEF Open, Call
<1>8. S[7].kind = "call" /\ S[7].what \in {"verdict", "pass"}
  BY <1>1 DEF Call
<1>9. 7 \in Nat /\ 7 > 1 /\ "listener" # "stream"
  OBVIOUS
<1> QED
  BY <1>1, <1>6, <1>7, <1>8, <1>9, ShapeFromSteps, Zenon DEF S

(* Every program's setup and cleanup have their shape.                     *)
LEMMA StreamCleanupShape == CleanupShape("stream")
<1> DEFINE C == Cleanup("stream")
<1>1. /\ Len(C) = 8
      /\ C[1] = "client_stream" /\ C[2] = "client_connection" /\ C[3] = "listener"
      /\ C[4] = "client_configuration" /\ C[5] = "server_configuration"
      /\ C[6] = "client_registration" /\ C[7] = "server_registration" /\ C[8] = "api"
  BY Zenon DEF Cleanup, StreamCleanup
<1> HIDE DEF C
<1>2. \A k \in 1 .. 8 : C[k] \in Handle \ ServerSide
  BY <1>1, Handles DEF Handle, ServerSide
<1>3. ASSUME NEW k \in 1 .. 8, NEW h \in DOMAIN Parent, Parent[h] = C[k]
      PROVE  \/ \E i \in 1 .. k - 1 : C[i] = h
             \/ h = "server_connection" /\ C[k] = "server_registration"
  BY <1>1, <1>3, Handles
<1> QED
  BY <1>1, <1>2, <1>3 DEF CleanupShape, C

LEMMA SmallCleanupShape ==
    ASSUME NEW p \in {"lifecycle", "listener"}
    PROVE  CleanupShape(p)
<1> DEFINE C == Cleanup(p)
<1>1. /\ Len(C) = 4 /\ p # "stream"
      /\ C[1] = "listener" /\ C[2] = "server_configuration" /\ C[3] = "server_registration"
      /\ C[4] = "api"
  BY Zenon DEF Cleanup, SmallCleanup
<1> HIDE DEF C
<1>2. \A k \in 1 .. 4 : C[k] \in Handle \ ServerSide
  BY <1>1, Handles DEF Handle, ServerSide
<1>3. ASSUME NEW k \in 1 .. 4, NEW h \in DOMAIN Parent, Parent[h] = C[k]
      PROVE  \/ \E i \in 1 .. k - 1 : C[i] = h
             \/ h = "server_connection" /\ C[k] = "server_registration"
             \/ h = "client_registration"
  BY <1>1, <1>3, Handles
<1> QED
  BY <1>1, <1>2, <1>3 DEF CleanupShape, C

LEMMA Shapes ==
    ASSUME NEW p \in Programs
    PROVE  SetupShape(p) /\ CleanupShape(p)
<1>1. p \in {"lifecycle", "listener", "stream"}
  BY SessionConstants, Zenon
<1>2. CASE p = "stream"
  BY <1>2, StreamShape, StreamCleanupShape, Zenon
<1>3. CASE p # "stream"
  BY <1>1, <1>3, LifecycleShape, ListenerShape, SmallCleanupShape, Zenon
<1> QED
  BY <1>2, <1>3, Zenon

(* A setup opens handles, and none of the server's side.                   *)
LEMMA OpensHandles ==
    ASSUME NEW p \in Programs, NEW k \in 1 .. Len(Setup(p)), Setup(p)[k].kind = "open"
    PROVE  Setup(p)[k].what \in Handle \ ServerSide
<1>1. SetupShape(p)
  BY Shapes, Zenon
<1>2. CASE k = 1
  BY <1>1, <1>2 DEF SetupShape, Open, Handle, ServerSide
<1>3. CASE k # 1
  <2>1. StepShape(Setup(p), k)
    BY <1>1, <1>3 DEF SetupShape
  <2> QED
    BY <2>1, Zenon DEF StepShape, Handle
<1> QED
  BY <1>2, <1>3, Zenon

----------------------------------------------------------------------------
(* The steps.                                                              *)

LEMMA SessionInitial == Init => SessionInv
<1> SUFFICES ASSUME Init PROVE SessionInv
  OBVIOUS
<1>1. program \in Programs /\ SetupShape(program) /\ pc.stage = "setup" /\ pc.step = 1
  BY Shapes, Zenon DEF Init
<1>2. \A h \in Handle : ~IsOpen(h)
  BY Zenon DEF Init, IsOpen
<1>3. "api" \in Handle /\ "client_registration" \in Handle /\ DOMAIN Parent \subseteq Handle
  BY Handles, Zenon DEF Handle
<1>4. SessionTypes
  <2>1. pc \in Positioned
    BY DEF Init, Positioned
  <2>2. polls \in 1 .. Polls
    BY SessionConstants DEF Init
  <2>6. /\ handle \in [Handle -> {"null", "open", "closed"}]
        /\ checking \in BOOLEAN /\ result \in {0, 1}
    BY Zenon DEF Init
  <2>3. 0 \in 0 .. Chunks
    BY SessionConstants
  <2>7. flags \in Flags
    BY <2>3, Zenon DEF Init, Flags, NoFlags
  <2>4. net \in Nets
    BY <2>3, Zenon DEF Init, Nets, Quiet
  <2>5. faulty \in BOOLEAN
    BY Zenon DEF Init
  <2> QED
    BY <1>1, <2>1, <2>2, <2>7, <2>4, <2>5, <2>6 DEF SessionTypes, TypeOK, Flags
<1>5. SetupPosition
  BY <1>1, <1>2, <1>3 DEF SetupPosition, SetupShape
<1>6. CleanupPosition /\ ExitPosition
  BY <1>1, Zenon DEF CleanupPosition, ExitPosition
<1>7. ChildrenClosedFirst /\ ServerOnly
  BY <1>2, <1>3, Zenon DEF ChildrenClosedFirst, ServerOnly
<1>8. CheckingHolds /\ Reported
  BY DEF Init, CheckingHolds, Reported, NoFlags
<1> QED
  BY <1>4, <1>5, <1>6, <1>7, <1>8, Zenon DEF SessionInv, Positions

(* A step that leaves main and the handles where they are.                 *)
LEMMA PositionsKept ==
    ASSUME Positions, UNCHANGED <<program, pc, handle>>
    PROVE  Positions'
BY Zenon DEF Positions, SetupPosition, CleanupPosition, ExitPosition, ChildrenClosedFirst,
       ServerOnly, IsOpen

(* goto cleanup from any step of the setup.                                *)
LEMMA ToCleanup ==
    ASSUME SessionInv, pc.stage = "setup", GoCleanup, UNCHANGED <<program, handle>>
    PROVE  Positions' /\ pc' \in Positioned
<1>1. program \in Programs /\ SetupShape(program) /\ CleanupShape(program)
  BY Shapes, Zenon DEF SessionInv, SessionTypes
<1>2. pc' \in [stage : {"cleanup", "exited"}, step : {1}] /\ pc' \in Positioned
  BY DEF GoCleanup, Positioned
<1>3. ASSUME pc'.stage = "exited" PROVE ~IsOpen("api")
  <2>1. Step.what = "api"
    BY <1>3, Zenon DEF GoCleanup
  <2>2. pc.step \in 1 .. Len(Setup(program)) /\ (pc.step = 1 => ~IsOpen("api"))
    BY Zenon DEF SessionInv, Positions, SetupPosition
  <2>3. pc.step = 1
    BY <1>1, <2>1, <2>2 DEF SetupShape, StepShape, Step
  <2> QED
    BY <2>2, <2>3, Zenon
<1>4. SetupPosition' /\ CleanupPosition'
  BY <1>1, <1>2 DEF SetupPosition, CleanupPosition, CleanupShape
<1>5. ExitPosition'
  BY <1>3, Zenon DEF ExitPosition, IsOpen
<1>6. ChildrenClosedFirst' /\ ServerOnly'
  BY Zenon DEF SessionInv, Positions, ChildrenClosedFirst, ServerOnly, IsOpen
<1> QED
  BY <1>2, <1>4, <1>5, <1>6, Zenon DEF Positions

(* The next step of the setup, after one that opens nothing.               *)
LEMMA ToNextStep ==
    ASSUME SessionInv, pc.stage = "setup", Advance, UNCHANGED <<program, handle>>,
           Step.kind # "open",
           ~(Step.kind = "call" /\ Step.what \in {"verdict", "pass"})
    PROVE  Positions' /\ pc' \in Positioned
<1>1. program \in Programs /\ SetupShape(program)
  BY Shapes, Zenon DEF SessionInv, SessionTypes
<1>2. /\ pc.step \in 1 .. Len(Setup(program)) /\ pc.step \in Nat \ {0}
      /\ \A i \in 1 .. pc.step - 1 :
            Setup(program)[i].kind = "open" => IsOpen(Setup(program)[i].what)
      /\ Len(Setup(program)) \in Nat
  BY <1>1 DEF SessionInv, SessionTypes, Positions, SetupPosition, SetupShape
<1>3. pc.step # Len(Setup(program))
  BY <1>1, Zenon DEF SetupShape, Step
<1>4. pc' = [stage |-> "setup", step |-> pc.step + 1]
  BY Zenon DEF Advance, SessionInv, SessionTypes, Positioned
<1>5. SetupPosition'
  BY <1>2, <1>3, <1>4 DEF SetupPosition, Step, IsOpen
<1>6. CleanupPosition' /\ ExitPosition'
  BY <1>4, Zenon DEF CleanupPosition, ExitPosition
<1>7. ChildrenClosedFirst' /\ ServerOnly'
  BY Zenon DEF SessionInv, Positions, ChildrenClosedFirst, ServerOnly, IsOpen
<1>8. pc' \in Positioned
  BY <1>2, <1>4 DEF Positioned
<1> QED
  BY <1>5, <1>6, <1>7, <1>8, Zenon DEF Positions

(* The types as the steps use them.                                        *)
LEMMA TypesUsed ==
    SessionTypes <=>
        /\ program \in Programs /\ faulty \in BOOLEAN /\ pc \in Positioned
        /\ polls \in 1 .. Polls /\ handle \in [Handle -> {"null", "open", "closed"}]
        /\ flags \in Flags /\ net \in Nets
        /\ checking \in BOOLEAN /\ result \in {0, 1}
<1>1. pc \in Positioned => /\ pc.stage \in {"setup", "cleanup", "exited"}
                           /\ pc.step \in Nat \ {0}
  BY Zenon DEF Positioned
<1> QED
  BY <1>1, Zenon DEF SessionTypes, TypeOK, Flags

LEMMA TypesUsedNext ==
    SessionTypes' <=>
        /\ program' \in Programs /\ faulty' \in BOOLEAN /\ pc' \in Positioned
        /\ polls' \in 1 .. Polls /\ handle' \in [Handle -> {"null", "open", "closed"}]
        /\ flags' \in Flags /\ net' \in Nets
        /\ checking' \in BOOLEAN /\ result' \in {0, 1}
<1>1. pc' \in Positioned => /\ pc'.stage \in {"setup", "cleanup", "exited"}
                            /\ pc'.step \in Nat \ {0}
  BY Zenon DEF Positioned
<1> QED
  BY <1>1, Zenon DEF SessionTypes, TypeOK, Flags

(* Main opens a handle under one that is open, or goes to its cleanup.     *)
LEMMA MainOpenStep == SessionInv /\ MainOpen => SessionInv'
<1> SUFFICES ASSUME SessionInv, MainOpen PROVE SessionInv'
  OBVIOUS
<1>1. /\ pc.stage = "setup" /\ Step.kind = "open"
      /\ UNCHANGED <<program, faulty, flags, net, checking, result>>
  BY Zenon DEF MainOpen, At, chosen
<1>2. /\ program \in Programs /\ faulty \in BOOLEAN /\ pc \in Positioned
      /\ polls \in 1 .. Polls /\ handle \in [Handle -> {"null", "open", "closed"}]
      /\ flags \in Flags /\ net \in Nets
      /\ checking \in BOOLEAN /\ result \in {0, 1}
  BY TypesUsed, Zenon DEF SessionInv
<1>3. SetupShape(program)
  BY <1>2, Shapes, Zenon
<1>4. Polls \in 1 .. Polls
  BY SessionConstants
<1>5. CASE GoCleanup /\ UNCHANGED handle
  <2>1. Positions' /\ pc' \in Positioned
    BY <1>1, <1>5, ToCleanup, Zenon
  <2>2. polls' = Polls
    BY <1>5, Zenon DEF GoCleanup
  <2>3. SessionTypes'
    BY <1>1, <1>2, <1>4, <1>5, <2>1, <2>2, TypesUsedNext, Zenon
  <2>4. CheckingHolds' /\ Reported'
    BY <1>1, <1>5, Zenon DEF SessionInv, CheckingHolds, Reported, IsOpen
  <2> QED
    BY <2>1, <2>3, <2>4, Zenon DEF SessionInv
<1>6. CASE handle' = [handle EXCEPT ![Step.what] = "open"] /\ Advance
  <2> DEFINE S == Setup(program)
             k == pc.step
             h == S[k].what
  <2>1. /\ k \in 1 .. Len(S) /\ k \in Nat \ {0} /\ Len(S) \in Nat
        /\ \A i \in 1 .. k - 1 : S[i].kind = "open" => IsOpen(S[i].what)
    BY <1>1, <1>3 DEF SessionInv, Positions, SetupPosition, SetupShape
  <2>2. S[k].kind = "open" /\ handle' = [handle EXCEPT ![h] = "open"]
    BY <1>1, <1>6, Zenon DEF Step
  <2>3. k # Len(S)
    BY <1>3, <2>2, Zenon DEF SetupShape
  <2>4. pc' = [stage |-> "setup", step |-> k + 1] /\ polls' = Polls
    BY <1>1, <1>2, <1>6, Zenon DEF Advance, Positioned
  <2>5. h \in Handle /\ (h \in DOMAIN Parent => IsOpen(Parent[h]))
    <3>1. CASE k = 1
      <4>1. h = "api"
        BY <1>3, <3>1 DEF SetupShape, Open
      <4> QED
        BY <4>1, Handles, Zenon DEF Handle
    <3>2. CASE k # 1
      <4>1. StepShape(S, k)
        BY <1>3, <2>1, <3>2 DEF SetupShape
      <4>2. h \in DOMAIN Parent /\ \E i \in 1 .. k - 1 : S[i] = Open(Parent[h])
        BY <2>2, <4>1, Zenon DEF StepShape
      <4>3. IsOpen(Parent[h])
        BY <2>1, <4>2 DEF Open
      <4> QED
        BY <4>2, <4>3, Zenon DEF Handle
    <3> QED
      BY <3>1, <3>2, Zenon
  <2>6. program # "stream" => h # "client_registration"
    BY <1>3, <2>1, Zenon DEF SetupShape
  <2> HIDE DEF S, k, h
  <2>7. handle' \in [Handle -> {"null", "open", "closed"}]
    BY <1>2, <2>2, Zenon
  <2>8. /\ handle'[h] = "open"
        /\ \A g : IsOpen(g) /\ g \in Handle => handle'[g] = "open"
        /\ \A g \in Handle \ {h} : handle'[g] = handle[g]
    BY <1>2, <2>2, <2>5, Zenon DEF IsOpen
  <2>9. ChildrenClosedFirst'
    <3>1. ASSUME NEW g \in DOMAIN Parent, handle'[g] = "open"
          PROVE  handle'[Parent[g]] = "open"
      <4>1. g \in Handle /\ Parent[g] \in Handle
        BY Handles, Zenon DEF Handle
      <4>2. IsOpen(Parent[g])
        BY <2>5, <2>8, <3>1, <4>1, Zenon
           DEF SessionInv, Positions, ChildrenClosedFirst, IsOpen
      <4> QED
        BY <2>8, <4>1, <4>2, Zenon
    <3> QED
      BY <3>1, Zenon DEF ChildrenClosedFirst, IsOpen
  <2>10. ServerOnly'
    BY <1>1, <2>6, <2>8, Handles, Zenon
       DEF SessionInv, Positions, ServerOnly, IsOpen, Handle
  <2>11. SetupPosition'
    <3>1. pc'.step \in 1 .. Len(S) /\ pc'.step = k + 1 /\ pc'.step # 1
      BY <2>1, <2>3, <2>4
    <3>2. ASSUME NEW i \in 1 .. k, S[i].kind = "open" PROVE handle'[S[i].what] = "open"
      <4>1. CASE i = k
        BY <2>8, <4>1, Zenon DEF h
      <4>2. CASE i # k
        <5>1. i \in 1 .. k - 1
          BY <2>1, <4>2
        <5>2. IsOpen(S[i].what)
          BY <2>1, <3>2, <5>1, Zenon
        <5>3. S[i].what \in Handle
          BY <1>2, <2>1, <3>2, <5>1, OpensHandles DEF S
        <5> QED
          BY <2>8, <5>2, <5>3, Zenon
      <4> QED
        BY <4>1, <4>2, Zenon
    <3>3. Setup(program') = S /\ 1 .. pc'.step - 1 = 1 .. k
      BY <1>1, <2>1, <3>1 DEF S
    <3> QED
      BY <3>1, <3>2, <3>3, Zenon DEF SetupPosition, IsOpen
  <2>12. CleanupPosition' /\ ExitPosition'
    BY <2>4, Zenon DEF CleanupPosition, ExitPosition
  <2>13. SessionTypes'
    <3>1. pc' \in Positioned
      BY <2>1, <2>4 DEF Positioned
    <3> QED
      BY <1>1, <1>2, <1>4, <2>4, <2>7, <3>1, TypesUsedNext, Zenon
  <2>14. CheckingHolds' /\ Reported'
    BY <1>1, <2>8, Handles, Zenon DEF SessionInv, CheckingHolds, Reported, IsOpen, Handle
  <2> QED
    BY <2>9, <2>10, <2>11, <2>12, <2>13, <2>14, Zenon DEF SessionInv, Positions
<1> QED
  BY <1>5, <1>6, Zenon DEF MainOpen

(* A step of main's setup that opens nothing and reports nothing.          *)
LEMMA QuietMainStep ==
    ASSUME SessionInv, pc.stage = "setup",
           UNCHANGED <<program, faulty, handle, flags, checking, result>>,
           net' \in Nets, net'.response = net.response,
           polls' \in 1 .. Polls, pc' \in Positioned, Positions'
    PROVE  SessionInv'
<1>1. SessionTypes'
  <2>1. /\ program \in Programs /\ faulty \in BOOLEAN
        /\ handle \in [Handle -> {"null", "open", "closed"}] /\ flags \in Flags
        /\ checking \in BOOLEAN /\ result \in {0, 1}
    BY TypesUsed, Zenon DEF SessionInv
  <2> QED
    BY <2>1, TypesUsedNext, Zenon
<1>2. CheckingHolds' /\ Reported'
  BY Zenon DEF SessionInv, CheckingHolds, Reported, IsOpen
<1> QED
  BY <1>1, <1>2, Zenon DEF SessionInv

LEMMA MainCallStep == SessionInv /\ MainCall => SessionInv'
<1> SUFFICES ASSUME SessionInv, MainCall PROVE SessionInv'
  OBVIOUS
<1>1. /\ pc.stage = "setup" /\ Step.kind = "call" /\ Step.what \notin {"verdict", "pass"}
      /\ UNCHANGED <<program, faulty, handle, flags, checking, result>>
  BY Zenon DEF MainCall, At, chosen
<1>2. net \in Nets /\ Polls \in 1 .. Polls
  BY TypesUsed, SessionConstants DEF SessionInv
<1>3. CASE net' = Started(Step.what) /\ Advance
  <2>1. net' \in Nets /\ net'.response = net.response
    BY <1>2, <1>3, Zenon DEF Started, Nets
  <2>2. Positions' /\ pc' \in Positioned
    BY <1>1, <1>3, ToNextStep, Zenon
  <2> QED
    BY <1>1, <1>2, <1>3, <2>1, <2>2, QuietMainStep, Zenon DEF Advance
<1>4. CASE GoCleanup /\ UNCHANGED net
  <2>1. Positions' /\ pc' \in Positioned
    BY <1>1, <1>4, ToCleanup, Zenon
  <2> QED
    BY <1>1, <1>2, <1>4, <2>1, QuietMainStep, Zenon DEF GoCleanup
<1> QED
  BY <1>3, <1>4, Zenon DEF MainCall

LEMMA MainPollStep == SessionInv /\ MainPoll => SessionInv'
<1> SUFFICES ASSUME SessionInv, MainPoll PROVE SessionInv'
  OBVIOUS
<1>1. /\ pc.stage = "setup" /\ Step.kind = "wait"
      /\ UNCHANGED <<program, faulty, handle, flags, net, checking, result>>
  BY Zenon DEF MainPoll, At, chosen
<1>2. net \in Nets /\ Polls \in 1 .. Polls /\ polls \in 1 .. Polls /\ pc \in Positioned
  BY TypesUsed, SessionConstants DEF SessionInv
<1>3. CASE Advance
  <2>1. Positions' /\ pc' \in Positioned
    BY <1>1, <1>3, ToNextStep, Zenon
  <2> QED
    BY <1>1, <1>2, <1>3, <2>1, QuietMainStep, Zenon DEF Advance
<1>4. CASE GoCleanup
  <2>1. Positions' /\ pc' \in Positioned
    BY <1>1, <1>4, ToCleanup, Zenon
  <2> QED
    BY <1>1, <1>2, <1>4, <2>1, QuietMainStep, Zenon DEF GoCleanup
<1>5. CASE polls # 1 /\ polls' = polls - 1 /\ UNCHANGED pc
  <2>1. Positions'
    BY <1>1, <1>5, PositionsKept, Zenon DEF SessionInv
  <2>2. polls' \in 1 .. Polls
    BY <1>2, <1>5, SessionConstants
  <2> QED
    BY <1>1, <1>2, <1>5, <2>1, <2>2, QuietMainStep, Zenon
<1> QED
  BY <1>3, <1>4, <1>5, Zenon DEF MainPoll

(* The exit code of the stream program is 0 only by its verdict.           *)
LEMMA MainVerdictStep == SessionInv /\ MainVerdict => SessionInv'
<1> SUFFICES ASSUME SessionInv, MainVerdict PROVE SessionInv'
  OBVIOUS
<1>1. /\ pc.stage = "setup" /\ GoCleanup
      /\ UNCHANGED <<program, faulty, handle, flags, net, checking>>
      /\ result' = IF Step.what = "pass" \/ Verdict THEN 0 ELSE 1
  BY Zenon DEF MainVerdict, At, chosen
<1>2. Positions' /\ pc' \in Positioned
  BY <1>1, ToCleanup, Zenon
<1>3. SessionTypes'
  <2>1. /\ program \in Programs /\ faulty \in BOOLEAN
        /\ handle \in [Handle -> {"null", "open", "closed"}] /\ flags \in Flags
        /\ checking \in BOOLEAN /\ net \in Nets
    BY TypesUsed, Zenon DEF SessionInv
  <2>2. Polls \in 1 .. Polls /\ polls' = Polls /\ result' \in {0, 1}
    BY <1>1, SessionConstants DEF GoCleanup
  <2> QED
    BY <1>1, <1>2, <2>1, <2>2, TypesUsedNext, Zenon
<1>4. program = "stream" => Step.what # "pass"
  <2>1. program \in Programs /\ pc.step \in 1 .. Len(Setup(program))
    BY <1>1, TypesUsed, Zenon DEF SessionInv, Positions, SetupPosition
  <2> QED
    BY <2>1, Shapes, Zenon DEF SetupShape, Step
<1>5. CheckingHolds' /\ Reported'
  BY <1>1, <1>4 DEF SessionInv, CheckingHolds, Reported, IsOpen, Verdict
<1> QED
  BY <1>2, <1>3, <1>5, Zenon DEF SessionInv


(* Main closes a handle whose children are closed, or skips it.            *)
LEMMA MainCloseStep == SessionInv /\ MainClose => SessionInv'
<1> SUFFICES ASSUME SessionInv, MainClose PROVE SessionInv'
  OBVIOUS
<1> DEFINE C == Cleanup(program)
           k == pc.step
           h == C[k]
<1>1. /\ pc.stage = "cleanup"
      /\ UNCHANGED <<program, faulty, polls, flags, checking, result>>
  BY Zenon DEF MainClose, chosen
<1>2. /\ program \in Programs /\ faulty \in BOOLEAN /\ pc \in Positioned
      /\ polls \in 1 .. Polls /\ handle \in [Handle -> {"null", "open", "closed"}]
      /\ flags \in Flags /\ net \in Nets
      /\ checking \in BOOLEAN /\ result \in {0, 1}
  BY TypesUsed, Zenon DEF SessionInv
<1>3. CleanupShape(program)
  BY <1>2, Shapes, Zenon
<1>4. /\ k \in 1 .. Len(C) /\ k \in Nat \ {0} /\ Len(C) \in Nat \ {0}
      /\ \A i \in 1 .. k - 1 : ~IsOpen(C[i])
  BY <1>1, <1>3 DEF SessionInv, Positions, CleanupPosition, CleanupShape
<1>5. h \in Handle \ ServerSide
  BY <1>3, <1>4, Zenon DEF CleanupShape
<1>6. IF IsOpen(h)
      THEN MayClose(h) /\ handle' = [handle EXCEPT ![h] = "closed"] /\ net' = Silenced(h)
      ELSE UNCHANGED <<handle, net>>
  BY Zenon DEF MainClose, Closing
<1>7. pc' = IF k = Len(C) THEN [stage |-> "exited", step |-> 1]
            ELSE [stage |-> "cleanup", step |-> k + 1]
  BY <1>1, <1>2 DEF MainClose, Positioned
<1>8. ASSUME NEW g \in DOMAIN Parent, Parent[g] = h, IsOpen(h) PROVE ~IsOpen(g)
  <2>1. \/ \E i \in 1 .. k - 1 : C[i] = g
        \/ g = "server_connection" /\ h = "server_registration"
        \/ g = "client_registration" /\ program # "stream"
    BY <1>3, <1>4, <1>8, Zenon DEF CleanupShape
  <2>2. CASE g = "server_connection" /\ h = "server_registration"
    BY <1>6, <1>8, <2>2, Zenon DEF MayClose
  <2>3. CASE g = "client_registration" /\ program # "stream"
    BY <2>3, Zenon DEF SessionInv, Positions, ServerOnly
  <2> QED
    BY <1>4, <2>1, <2>2, <2>3, Zenon
<1> HIDE DEF C, k, h
<1>9. /\ handle' \in [Handle -> {"null", "open", "closed"}]
      /\ handle'[h] # "open"
      /\ \A g \in Handle \ {h} : handle'[g] = handle[g]
  BY <1>2, <1>5, <1>6, Zenon DEF IsOpen
<1>10. net' \in Nets /\ net'.response = net.response
  BY <1>2, <1>6, Zenon DEF Silenced, Nets
<1>11. ChildrenClosedFirst'
  <2>1. ASSUME NEW g \in DOMAIN Parent, handle'[g] = "open"
        PROVE  handle'[Parent[g]] = "open"
    <3>1. g \in Handle /\ Parent[g] \in Handle
      BY Handles, Zenon DEF Handle
    <3>2. g # h /\ IsOpen(g)
      BY <1>9, <2>1, <3>1, Zenon DEF IsOpen
    <3>3. IsOpen(Parent[g])
      BY <3>2, Zenon DEF SessionInv, Positions, ChildrenClosedFirst
    <3>4. Parent[g] # h
      BY <1>8, <3>2, <3>3, Zenon
    <3> QED
      BY <1>9, <3>1, <3>3, <3>4, Zenon DEF IsOpen
  <2> QED
    BY <2>1, Zenon DEF ChildrenClosedFirst, IsOpen
<1>12. ServerOnly'
  <2>1. "client_registration" \in Handle
    BY Handles, Zenon DEF Handle
  <2> QED
    BY <1>1, <1>9, <2>1, Zenon DEF SessionInv, Positions, ServerOnly, IsOpen
<1>13. SetupPosition'
  BY <1>7, Zenon DEF SetupPosition
<1>14. CleanupPosition'
  <2>1. ASSUME pc'.stage = "cleanup"
        PROVE  pc'.step = k + 1 /\ k + 1 \in 1 .. Len(C) /\ 1 .. pc'.step - 1 = 1 .. k
    BY <1>4, <1>7, <2>1
  <2>2. ASSUME NEW i \in 1 .. k PROVE handle'[C[i]] # "open"
    <3>1. CASE i = k
      BY <1>9, <3>1, Zenon DEF h
    <3>2. CASE i # k
      <4>1. i \in 1 .. k - 1 /\ i \in 1 .. Len(C)
        BY <1>4, <3>2
      <4>2. C[i] \in Handle /\ ~IsOpen(C[i])
        BY <1>3, <1>4, <4>1, Zenon DEF CleanupShape, C
      <4> QED
        BY <1>9, <4>2, Zenon DEF IsOpen
    <3> QED
      BY <3>1, <3>2, Zenon
  <2>3. Cleanup(program') = C
    BY <1>1, Zenon DEF C
  <2> QED
    BY <2>1, <2>2, <2>3, Zenon DEF CleanupPosition, IsOpen
<1>15. ExitPosition'
  <2>1. ASSUME pc'.stage = "exited" PROVE h = "api"
    BY <1>3, <1>7, <2>1, Zenon DEF CleanupShape, h, C
  <2> QED
    BY <1>9, <2>1, Zenon DEF ExitPosition, IsOpen
<1>16. SessionTypes'
  <2>1. pc' \in Positioned
    BY <1>4, <1>7 DEF Positioned
  <2> QED
    BY <1>1, <1>2, <1>9, <1>10, <2>1, TypesUsedNext, Zenon
<1>17. CheckingHolds'
  <2>1. checking => h # "client_connection"
    BY <1>6, Zenon DEF MayClose, SessionInv, CheckingHolds
  <2>2. "client_connection" \in Handle
    BY Handles, Zenon DEF Handle
  <2> QED
    BY <1>1, <1>9, <2>1, <2>2, Zenon DEF SessionInv, CheckingHolds, IsOpen
<1>18. Reported'
  BY <1>1, <1>10, Zenon DEF SessionInv, Reported
<1> QED
  BY <1>11, <1>12, <1>13, <1>14, <1>15, <1>16, <1>17, <1>18, Zenon DEF SessionInv, Positions

(* MsQuic's threads open or close a handle of the server's side.           *)
LEMMA ServerHandle ==
    ASSUME SessionInv, UNCHANGED <<program, pc>>,
           NEW c \in ServerSide, NEW v \in {"open", "closed"},
           handle' = [handle EXCEPT ![c] = v],
           v = "open" => IsOpen(Parent[c]),
           v = "closed" /\ c = "server_connection" => ~IsOpen("server_stream")
    PROVE  /\ Positions' /\ handle' \in [Handle -> {"null", "open", "closed"}]
           /\ handle'["client_connection"] = handle["client_connection"]
<1>1. program \in Programs /\ handle \in [Handle -> {"null", "open", "closed"}]
  BY TypesUsed, Zenon DEF SessionInv
<1>2. SetupShape(program) /\ CleanupShape(program)
  BY <1>1, Shapes, Zenon
<1>3. c \in Handle /\ c \in DOMAIN Parent
  BY Handles, Zenon DEF Handle, ServerSide
<1>4. /\ handle' \in [Handle -> {"null", "open", "closed"}] /\ handle'[c] = v
      /\ \A g \in Handle \ {c} : handle'[g] = handle[g]
  BY <1>1, <1>3, Zenon
<1>5. SetupPosition'
  <2>1. ASSUME NEW i \in 1 .. pc.step - 1, pc.stage = "setup",
               Setup(program)[i].kind = "open"
        PROVE  handle'[Setup(program)[i].what] = "open"
    <3>1. /\ pc.step \in 1 .. Len(Setup(program)) /\ Len(Setup(program)) \in Nat
          /\ IsOpen(Setup(program)[i].what)
      BY <1>2, <2>1, Zenon DEF SessionInv, Positions, SetupPosition, SetupShape
    <3>2. Setup(program)[i].what \in Handle \ {c}
      BY <1>1, <2>1, <3>1, OpensHandles
    <3> QED
      BY <1>4, <3>1, <3>2, Zenon DEF IsOpen
  <2>2. "api" \in Handle \ {c}
    BY Handles, Zenon DEF Handle, ServerSide
  <2> QED
    BY <1>4, <2>1, <2>2 DEF SessionInv, Positions, SetupPosition, IsOpen
<1>6. CleanupPosition'
  <2>1. ASSUME NEW i \in 1 .. pc.step - 1, pc.stage = "cleanup"
        PROVE  handle'[Cleanup(program)[i]] # "open"
    <3>1. /\ pc.step \in 1 .. Len(Cleanup(program)) /\ Len(Cleanup(program)) \in Nat
          /\ ~IsOpen(Cleanup(program)[i])
      BY <1>2, <2>1, Zenon DEF SessionInv, Positions, CleanupPosition, CleanupShape
    <3>2. Cleanup(program)[i] \in Handle \ {c}
      BY <1>2, <2>1, <3>1 DEF CleanupShape
    <3> QED
      BY <1>4, <3>1, <3>2, Zenon DEF IsOpen
  <2> QED
    BY <2>1, Zenon DEF SessionInv, Positions, CleanupPosition, IsOpen
<1>7. /\ "api" \in Handle \ {c} /\ "client_registration" \in Handle \ {c}
      /\ "client_connection" \in Handle \ {c}
  BY Handles, Zenon DEF Handle, ServerSide
<1>8. ExitPosition' /\ ServerOnly'
  BY <1>4, <1>7, Zenon DEF SessionInv, Positions, ExitPosition, ServerOnly, IsOpen
<1>9. ChildrenClosedFirst'
  <2>1. ASSUME NEW g \in DOMAIN Parent, handle'[g] = "open"
        PROVE  handle'[Parent[g]] = "open"
    <3>1. g \in Handle /\ Parent[g] \in Handle /\ Parent[g] # g
      BY Handles, Zenon DEF Handle
    <3>2. IsOpen(Parent[g])
      BY <1>4, <2>1, <3>1, Zenon DEF SessionInv, Positions, ChildrenClosedFirst, IsOpen
    <3>3. CASE Parent[g] # c
      BY <1>4, <3>1, <3>2, <3>3, Zenon DEF IsOpen
    <3>4. CASE Parent[g] = c
      <4>1. c = "server_connection" /\ g = "server_stream"
        BY <3>4, Handles, Zenon DEF ServerSide
      <4>2. IsOpen(g)
        BY <1>4, <2>1, <3>1, <3>4, Zenon DEF IsOpen
      <4> QED
        BY <1>4, <3>4, <4>1, <4>2, Zenon
    <3> QED
      BY <3>3, <3>4, Zenon
  <2> QED
    BY <2>1, Zenon DEF ChildrenClosedFirst, IsOpen
<1> QED
  BY <1>4, <1>5, <1>6, <1>7, <1>8, <1>9, Zenon DEF Positions

(* A step of MsQuic: main stands still, the positions are as shown, and    *)
(* the flags report what the network did.                                  *)
LEMMA MsQuicStep ==
    ASSUME SessionInv, UNCHANGED main, Positions',
           handle' \in [Handle -> {"null", "open", "closed"}],
           handle'["client_connection"] = handle["client_connection"],
           flags' \in Flags, net' \in Nets, checking' \in BOOLEAN,
           checking' => checking \/ IsOpen("client_connection"),
           flags.server_send_complete => flags'.server_send_complete,
           flags.received = Chunks => flags'.received = Chunks,
           flags'.server_send_complete => net'.response = "done"
    PROVE  SessionInv'
<1>1. UNCHANGED <<program, faulty, pc, polls, result>>
  BY Zenon DEF main, chosen
<1>2. SessionTypes'
  <2>1. /\ program \in Programs /\ faulty \in BOOLEAN /\ pc \in Positioned
        /\ polls \in 1 .. Polls /\ result \in {0, 1}
    BY TypesUsed, Zenon DEF SessionInv
  <2> QED
    BY <1>1, <2>1, TypesUsedNext, Zenon
<1>3. CheckingHolds'
  BY Zenon DEF SessionInv, CheckingHolds, IsOpen
<1>4. Reported'
  BY <1>1, Zenon DEF SessionInv, Reported
<1> QED
  BY <1>2, <1>3, <1>4, Zenon DEF SessionInv

(* What every step of MsQuic starts from.                                  *)
LEMMA MsQuicFrom ==
    ASSUME SessionInv
    PROVE  /\ handle \in [Handle -> {"null", "open", "closed"}]
           /\ flags \in Flags /\ net \in Nets /\ checking \in BOOLEAN
           /\ flags.server_send_complete => net.response = "done"
           /\ Positions
BY TypesUsed, Zenon DEF SessionInv, Reported

(* The callbacks that open or close a handle.                              *)
LEMMA HandleCallbacks ==
    ASSUME SessionInv,
           \/ ListenerCallback \/ PeerStreamStarted
           \/ ServerStreamShutdown \/ ServerConnectionShutdown
    PROVE  SessionInv'
<1>1. /\ handle \in [Handle -> {"null", "open", "closed"}]
      /\ flags \in Flags /\ net \in Nets /\ checking \in BOOLEAN
      /\ flags.server_send_complete => net.response = "done"
  BY MsQuicFrom, Zenon
<1>2. /\ UNCHANGED <<main, checking>> /\ UNCHANGED <<program, pc>>
  BY Zenon
     DEF ListenerCallback, PeerStreamStarted, ServerStreamShutdown, ServerConnectionShutdown,
         main, chosen
<1>3. \E c \in ServerSide, v \in {"open", "closed"} :
         /\ handle' = [handle EXCEPT ![c] = v]
         /\ v = "open" => IsOpen(Parent[c])
         /\ v = "closed" /\ c = "server_connection" => ~IsOpen("server_stream")
  <2>1. CASE ListenerCallback
    <3>1. IsOpen("server_registration")
      BY <2>1, Handles DEF ListenerCallback, SessionInv, Positions, ChildrenClosedFirst
    <3>2. ~IsOpen("server_stream")
      BY <2>1, Handles, Zenon
         DEF ListenerCallback, SessionInv, Positions, ChildrenClosedFirst, IsOpen
    <3>3. \E v \in {"open", "closed"} : handle' = [handle EXCEPT !["server_connection"] = v]
      BY <2>1, Zenon DEF ListenerCallback
    <3> QED
      BY <3>1, <3>2, <3>3, Handles, Zenon DEF ServerSide
  <2>2. CASE PeerStreamStarted
    <3>1. IsOpen("server_connection")
      BY <2>2, Zenon DEF PeerStreamStarted
    <3>2. \E v \in {"open", "closed"} : handle' = [handle EXCEPT !["server_stream"] = v]
      BY <2>2, Zenon DEF PeerStreamStarted
    <3> QED
      BY <3>1, <3>2, Handles, Zenon DEF ServerSide
  <2>3. CASE ServerStreamShutdown
    BY <2>3, Zenon DEF ServerStreamShutdown, ServerSide
  <2>4. CASE ServerConnectionShutdown
    BY <2>4, Zenon DEF ServerConnectionShutdown, ServerSide
  <2> QED
    BY <2>1, <2>2, <2>3, <2>4, Zenon
<1>4. /\ Positions' /\ handle' \in [Handle -> {"null", "open", "closed"}]
      /\ handle'["client_connection"] = handle["client_connection"]
  BY <1>2, <1>3, ServerHandle, Zenon
<1>5. /\ net' \in Nets /\ net'.response = net.response
  BY <1>1, Zenon DEF ListenerCallback, PeerStreamStarted, ServerStreamShutdown,
              ServerConnectionShutdown, Nets
<1>6. /\ flags' \in Flags /\ flags'.server_send_complete = flags.server_send_complete
      /\ flags'.received = flags.received
  BY <1>1, Zenon DEF ListenerCallback, PeerStreamStarted, ServerStreamShutdown,
              ServerConnectionShutdown, Flags
<1> QED
  BY <1>1, <1>2, <1>4, <1>5, <1>6, MsQuicStep, Zenon

(* The callbacks that leave the handles alone.                             *)
LEMMA FlagCallbacks ==
    ASSUME SessionInv,
           \/ ClientConnected \/ TransportShutdown \/ TransportShutdownFails
           \/ StreamStarted \/ ServerReceive \/ ServerSendComplete
           \/ ClientSendComplete \/ ClientReceive \/ ClientPeerSendShutdown
    PROVE  SessionInv'
<1>1. /\ handle \in [Handle -> {"null", "open", "closed"}]
      /\ flags \in Flags /\ net \in Nets /\ checking \in BOOLEAN
      /\ flags.server_send_complete => net.response = "done"
      /\ Positions
  BY MsQuicFrom, Zenon
<1>2. UNCHANGED main /\ UNCHANGED handle /\ UNCHANGED <<program, pc>>
  BY Zenon DEF ClientConnected, TransportShutdown, TransportShutdownFails, StreamStarted,
         ServerReceive, ServerSendComplete, ClientSendComplete, ClientReceive,
         ClientPeerSendShutdown, main, chosen
<1>3. Positions'
  BY <1>1, <1>2, PositionsKept, Zenon
<1>4. ASSUME flags' \in Flags, net' \in Nets, checking' \in BOOLEAN,
             checking' => checking \/ IsOpen("client_connection"),
             flags.server_send_complete => flags'.server_send_complete,
             flags.received = Chunks => flags'.received = Chunks,
             flags'.server_send_complete => net'.response = "done"
      PROVE  SessionInv'
  BY <1>1, <1>2, <1>3, <1>4, MsQuicStep, Zenon
<1>5. CASE ClientConnected
  <2>1. net' \in Nets /\ net'.response = net.response /\ checking' = checking
    BY <1>1, <1>5, Zenon DEF ClientConnected, Nets
  <2>2. /\ flags' \in Flags /\ flags'.server_send_complete = flags.server_send_complete
        /\ flags'.received = flags.received
    BY <1>1, <1>5, Zenon DEF ClientConnected, Flags
  <2> QED
    BY <1>1, <1>4, <2>1, <2>2, Zenon
<1>6. CASE TransportShutdown
  <2>1. net' \in Nets /\ net'.response = net.response /\ flags' = flags
    BY <1>1, <1>6, Zenon DEF TransportShutdown, Nets
  <2>2. checking' \in BOOLEAN /\ IsOpen("client_connection")
    BY <1>6, Zenon DEF TransportShutdown
  <2> QED
    BY <1>1, <1>4, <2>1, <2>2, Zenon
<1>7. CASE TransportShutdownFails
  <2>1. /\ flags' \in Flags /\ flags'.server_send_complete = flags.server_send_complete
        /\ flags'.received = flags.received
    BY <1>1, <1>7, Zenon DEF TransportShutdownFails, Flags
  <2> QED
    BY <1>1, <1>4, <1>7, <2>1, Zenon DEF TransportShutdownFails
<1>8. CASE StreamStarted
  <2>1. net' \in Nets /\ net'.response = net.response /\ checking' = checking
    BY <1>1, <1>8, Zenon DEF StreamStarted, Nets
  <2>2. /\ flags' \in Flags /\ flags'.server_send_complete = flags.server_send_complete
        /\ flags'.received = flags.received
    BY <1>1, <1>8, Zenon DEF StreamStarted, Flags
  <2> QED
    BY <1>1, <1>4, <2>1, <2>2, Zenon
<1>9. CASE ServerReceive
  <2>1. net' \in Nets /\ ~flags.server_send_complete /\ checking' = checking /\ flags' = flags
    BY <1>1, <1>9, Zenon DEF ServerReceive, Nets
  <2> QED
    BY <1>1, <1>4, <2>1, Zenon
<1>10. CASE ServerSendComplete
  <2>1. net' \in Nets /\ checking' = checking /\ ~flags.server_send_complete
    BY <1>1, <1>10, Zenon DEF ServerSendComplete, Nets
  <2>2. flags' \in Flags /\ flags'.received = flags.received
    BY <1>1, <1>10, Zenon DEF ServerSendComplete, Flags
  <2>3. flags'.server_send_complete => net'.response = "done"
    BY <1>1, <1>10, <2>1, Zenon DEF ServerSendComplete, Flags, Nets
  <2> QED
    BY <1>1, <1>4, <2>1, <2>2, <2>3, Zenon
<1>11. CASE ClientSendComplete
  <2>1. net' \in Nets /\ net'.response = net.response /\ checking' = checking
    BY <1>1, <1>11, Zenon DEF ClientSendComplete, Nets
  <2>2. /\ flags' \in Flags /\ flags'.server_send_complete = flags.server_send_complete
        /\ flags'.received = flags.received
    BY <1>1, <1>11, Zenon DEF ClientSendComplete, Flags
  <2> QED
    BY <1>1, <1>4, <2>1, <2>2, Zenon
<1>12. CASE ClientReceive
  <2>1. flags.received \in 0 .. Chunks /\ net.lost \in 0 .. Chunks
    BY <1>1, Zenon DEF Flags, Nets
  <2>2. flags.received + net.lost < Chunks
    BY <1>12, Zenon DEF ClientReceive
  <2>3. /\ flags.received + 1 \in 0 .. Chunks /\ net.lost + 1 \in 0 .. Chunks
        /\ flags.received # Chunks
    BY <2>1, <2>2, SessionConstants
  <2>4. /\ flags' \in Flags /\ flags'.server_send_complete = flags.server_send_complete
        /\ net' \in Nets /\ net'.response = net.response /\ checking' = checking
    BY <1>1, <1>12, <2>3, Zenon DEF ClientReceive, Flags, Nets
  <2> QED
    BY <1>1, <1>4, <2>3, <2>4, Zenon
<1>13. CASE ClientPeerSendShutdown
  <2>1. /\ flags' \in Flags /\ flags'.server_send_complete = flags.server_send_complete
        /\ flags'.received = flags.received
    BY <1>1, <1>13, Zenon DEF ClientPeerSendShutdown, Flags
  <2> QED
    BY <1>1, <1>4, <1>13, <2>1, Zenon DEF ClientPeerSendShutdown
<1> QED
  BY <1>5, <1>6, <1>7, <1>8, <1>9, <1>10, <1>11, <1>12, <1>13, Zenon

LEMMA SessionPreserved == SessionInv /\ [Next]_vars => SessionInv'
<1> SUFFICES ASSUME SessionInv, [Next]_vars PROVE SessionInv'
  OBVIOUS
<1>1. CASE Main
  BY <1>1, MainOpenStep, MainCallStep, MainPollStep, MainVerdictStep, MainCloseStep, Zenon
     DEF Main
<1>2. CASE MsQuic
  BY <1>2, HandleCallbacks, FlagCallbacks, Zenon DEF MsQuic
<1>3. CASE UNCHANGED vars
  <2>1. UNCHANGED <<program, faulty, pc, polls, handle, flags, net, checking, result>>
    BY <1>3, Zenon DEF vars, chosen
  <2>2. Positions'
    BY <2>1, PositionsKept, Zenon DEF SessionInv
  <2>3. SessionTypes'
    BY <2>1, Zenon DEF SessionInv, SessionTypes, TypeOK
  <2>4. CheckingHolds' /\ Reported'
    BY <2>1, Zenon DEF SessionInv, CheckingHolds, Reported, IsOpen
  <2> QED
    BY <2>2, <2>3, <2>4, Zenon DEF SessionInv
<1>4. CASE Exited
  BY <1>3, <1>4, Zenon DEF Exited
<1> QED
  BY <1>1, <1>2, <1>3, <1>4, Zenon DEF Next

----------------------------------------------------------------------------
(* The theorems.                                                           *)

(* Main's position tells which handles are open, in every program and      *)
(* whichever call fails: the invariant the others follow from.             *)
THEOREM SessionInvariant == Spec => []SessionInv
BY SessionInitial, SessionPreserved, PTL DEF Spec

(* Type correctness of the programs' state.                                *)
THEOREM SessionTypeCorrect == Spec => []TypeOK
<1>1. SessionInv => TypeOK
  BY Zenon DEF SessionInv, SessionTypes
<1> QED
  BY <1>1, SessionInvariant, PTL

(* No handle is closed while one opened under it is open, the server's     *)
(* connection that main never sees included (the cleanup of the three      *)
(* smoke programs).                                                        *)
THEOREM HandlesNest == Spec => []ChildrenClosedFirst
<1>1. SessionInv => ChildrenClosedFirst
  BY Zenon DEF SessionInv, Positions
<1> QED
  BY <1>1, SessionInvariant, PTL

(* When main returns no handle is open and no callback is still to come,   *)
(* so nothing uses the state on its stack.                                 *)
THEOREM MainLeavesNothing == Spec => []NothingOutlivesMain
<1>1. ASSUME SessionInv PROVE NothingOutlivesMain
  <2>1. SUFFICES ASSUME pc.stage = "exited"
                 PROVE  (\A h \in Handle : ~IsOpen(h)) /\ ~checking
    BY Zenon DEF NothingOutlivesMain
  <2>2. ~IsOpen("api") /\ \A h \in DOMAIN Parent : IsOpen(h) => IsOpen(Parent[h])
    BY <1>1, <2>1, Zenon DEF SessionInv, Positions, ExitPosition, ChildrenClosedFirst
  <2>3. ~IsOpen("server_registration") /\ ~IsOpen("client_registration")
    BY <2>2, Handles, Zenon
  <2>4. /\ ~IsOpen("server_configuration") /\ ~IsOpen("client_configuration")
        /\ ~IsOpen("listener") /\ ~IsOpen("server_connection")
        /\ ~IsOpen("client_connection")
    BY <2>2, <2>3, Handles, Zenon
  <2>5. ~IsOpen("client_stream") /\ ~IsOpen("server_stream")
    BY <2>2, <2>4, Handles, Zenon
  <2>6. ~checking
    BY <1>1, <2>4, Zenon DEF SessionInv, CheckingHolds
  <2> QED
    BY <2>2, <2>3, <2>4, <2>5, <2>6, Handles, Zenon DEF Handle
<1> QED
  BY <1>1, SessionInvariant, PTL

(* The stream program's exit code 0 means that the server's send completed *)
(* uncanceled and that the client has the whole response.                  *)
THEOREM ZeroMeansAnswered == Spec => []ExitZeroMeansAnswered
<1>1. SessionInv => ExitZeroMeansAnswered
  BY Zenon DEF SessionInv, Reported, ExitZeroMeansAnswered
<1> QED
  BY <1>1, SessionInvariant, PTL

----------------------------------------------------------------------------
(* The minimal responder, for every limit, buffer size and request.  While *)
(* it runs, the scan is at offset 12 + consumed; the positions it has      *)
(* passed are label starts (so an accepted name has labels), and every way *)
(* to cut a well-formed name into labels passes through the scan's         *)
(* position (so a well-formed name is not refused).                        *)

Eligible ==
    /\ entry = "validated"
    /\ valid_doq_request_id(request) /\ QuestionSized(request) /\ OneQuestion(request)

(* The positions behind the scan are label starts.                         *)
Passed ==
    /\ starts \subseteq 12 .. pos /\ 12 \in starts /\ pos \in starts
    /\ \A i \in starts : i < pos =>
          request.buf[i] \in 1 .. LabelLimit /\ i + 1 + request.buf[i] \in starts

(* Every cut of a well-formed name has a label or its root at the scan.    *)
Unavoidable ==
    \A n \in 1 .. NameLimit : \A S \in SUBSET (12 .. 11 + n) :
        request.buf[11 + n] = 0 /\ LabelsAt(request.buf, n, S) => pos \in S

Scanning ==
    Eligible /\ pos = 12 + consumed /\ pos <= request.len /\ consumed <= NameLimit
             /\ Passed /\ Unavoidable

Copying ==
    /\ entry = "validated" /\ Accepted(request)
    /\ capacity >= request.len
    /\ copied <= request.len - 12
    /\ \A i \in 12 .. 11 + copied : response[i] = request.buf[i]

(* The inductive invariant: what holds at each point of a call.            *)
IInv ==
    /\ CallTypeOK
    /\ at = "idle" => pos = 12 /\ consumed = 0 /\ starts = {12}
    /\ at \in {"idle", "scan", "decide"} => copied = 0
    /\ at = "scan" => Scanning
    /\ at = "decide" => Eligible
    /\ ScanExact
    /\ at = "copy" => Copying
    /\ ResponseExact

----------------------------------------------------------------------------
(* A header written over the response buffer leaves it a byte buffer.      *)
LEMMA HeaderType ==
    ASSUME CallTypeOK, request.len >= 12, NEW hi \in Byte, NEW lo \in Byte, NEW q \in {0, 1}
    PROVE  WithHeader(response, request, hi, lo, q) \in [0 .. ResponseSize - 1 -> Byte]
<1>1. request.buf[0] \in Byte /\ request.buf[1] \in Byte /\ {0, 1} \subseteq Byte
  <2>1. request.buf \in [0 .. BufferSize - 1 -> Byte] /\ request.len \in 0 .. BufferSize
    BY Zenon DEF CallTypeOK
  <2>2. 0 \in 0 .. BufferSize - 1 /\ 1 \in 0 .. BufferSize - 1
    BY <2>1, MinimalAssumption
  <2>3. {0, 1} \subseteq Byte
    BY DEF Byte
  <2> QED
    BY <2>1, <2>2, <2>3, Zenon
<1>2. \A i \in 0 .. ResponseSize - 1 : i < 12 => HeaderByte(request, hi, lo, q, i) \in Byte
  <2> SUFFICES ASSUME NEW i \in 0 .. ResponseSize - 1, i < 12
               PROVE  HeaderByte(request, hi, lo, q, i) \in Byte
    OBVIOUS
  <2>1. i < 2 => i = 0 \/ i = 1
    BY MinimalAssumption
  <2> QED
    BY <1>1, <2>1, Zenon DEF HeaderByte
<1>3. \A i \in 0 .. ResponseSize - 1 : response[i] \in Byte
  BY Zenon DEF CallTypeOK
<1> QED
  BY <1>2, <1>3, Zenon DEF WithHeader

(* The flag bytes of a NOERROR response are bytes.                         *)
LEMMA FlagsAreBytes ==
    ASSUME NEW x \in Byte
    PROVE  noerror_response_flags_hi(x) \in Byte /\ noerror_response_flags_lo(x) \in {0, 16}
<1>1. (x \div 8) % 16 \in 0 .. 15 /\ x % 2 \in 0 .. 1 /\ (x \div 16) % 2 \in 0 .. 1
  BY DEF Byte
<1> DEFINE a == (x \div 8) % 16
           b == x % 2
           c == (x \div 16) % 2
<1>2. a \in 0 .. 15 /\ b \in 0 .. 1 /\ c \in 0 .. 1
  BY <1>1, Zenon
<1> HIDE DEF a, b, c
<1>3. 128 + 8 * a + b \in Byte /\ 16 * c \in {0, 16}
  BY <1>2 DEF Byte
<1> QED
  BY <1>3, Zenon DEF a, b, c, noerror_response_flags_hi, noerror_response_flags_lo

(* Returning without a response preserves the invariant where silence is   *)
(* due.                                                                    *)
LEMMA Silent ==
    ASSUME IInv, Return(response, 0),
           \/ ~HeaderFits
           \/ entry = "validated" /\ ~valid_doq_request_id(request)
           \/ entry = "validated" /\ Accepted(request) /\ capacity < request.len
    PROVE  IInv'
<1>1. at' = "done" /\ response' = response /\ returned' = 0
  BY Zenon DEF Return
<1>2. UNCHANGED <<entry, request, capacity, pos, consumed, starts, qname_length, copied>>
  BY Zenon DEF Return, arguments, scan
<1>3. CallTypeOK'
  BY <1>1, <1>2, MinimalAssumption DEF IInv, CallTypeOK
<1>4. /\ Accepted(request)' = Accepted(request) /\ HeaderFits' = HeaderFits
      /\ valid_doq_request_id(request)' = valid_doq_request_id(request)
  BY <1>2, Zenon
     DEF Accepted, valid_doq_request_id, OneQuestion, WellFormedQuestion, LabelsAt,
              HeaderFits
<1>5. ResponseExact'
  BY <1>1, <1>2, <1>4, Zenon DEF ResponseExact
<1> QED
  BY <1>1, <1>3, <1>5, Zenon DEF IInv, ScanExact

(* The error responder preserves the invariant at any point where the call *)
(* is not one for an accepted question.                                    *)
LEMMA ErrorResponse ==
    ASSUME IInv, prepare_worker_minimal_error_response_send,
           entry = "error" \/ (/\ entry = "validated" /\ valid_doq_request_id(request)
                               /\ ~Accepted(request))
    PROVE  IInv'
<1>1. CASE HeaderFits
  <2>1. response' = WithHeader(response, request, 129, 1, 0) /\ returned' = 12 /\ at' = "done"
    BY <1>1, Zenon DEF prepare_worker_minimal_error_response_send, Return, Error
  <2>2. UNCHANGED <<entry, request, capacity, pos, consumed, starts, qname_length, copied>>
    BY <1>1, Zenon DEF prepare_worker_minimal_error_response_send, Return, arguments, scan
  <2>3. request.len >= 12 /\ capacity >= 12
    BY <1>1, Zenon DEF HeaderFits
  <2>4. CallTypeOK'
    <3>1. response' \in [0 .. ResponseSize - 1 -> Byte]
      <4>1. CallTypeOK /\ 129 \in Byte /\ 1 \in Byte /\ 0 \in {0, 1}
        BY DEF IInv, Byte
      <4> QED
        BY <2>1, <2>3, <4>1, HeaderType, Zenon
    <3>2. 12 \in 0 .. BufferSize
      BY <2>3, MinimalAssumption DEF IInv, CallTypeOK
    <3> QED
      BY <2>1, <2>2, <3>1, <3>2, Zenon DEF IInv, CallTypeOK
  <2>5. \A i \in 0 .. 11 : response'[i] = HeaderByte(request, 129, 1, 0, i)
    <3>1. 12 <= ResponseSize /\ ResponseSize \in Nat
      BY <2>3, MinimalAssumption DEF IInv, CallTypeOK
    <3> QED
      BY <2>1, <3>1 DEF WithHeader
  <2>6. ResponseExact'
    <3>1. Accepted(request)' = Accepted(request)
          /\ valid_doq_request_id(request)' = valid_doq_request_id(request)
      BY <2>2, Zenon
         DEF Accepted, valid_doq_request_id, OneQuestion, WellFormedQuestion, LabelsAt
    <3>2. Echoes(0, 2)'
      BY <2>2, <2>5 DEF Echoes, HeaderByte
    <3>3. response'[2] = 129 /\ response'[3] = 1 /\ \A i \in 4 .. 11 : response'[i] = 0
      BY <2>5 DEF HeaderByte
    <3> QED
      BY <2>1, <2>2, <2>3, <3>1, <3>2, <3>3 DEF ResponseExact
  <2> QED
    BY <2>1, <2>4, <2>6, Zenon DEF IInv, ScanExact
<1>2. CASE ~HeaderFits
  BY <1>2, Silent, Zenon DEF prepare_worker_minimal_error_response_send
<1> QED
  BY <1>1, <1>2, Zenon

(* A NOERROR header over the response buffer, and what it holds.           *)
LEMMA NoerrorHeader ==
    ASSUME CallTypeOK, HeaderFits, NEW q \in {0, 1}, response' = Noerror(response, request, q),
           UNCHANGED <<request, capacity>>
    PROVE  /\ response' \in [0 .. ResponseSize - 1 -> Byte]
           /\ NoerrorFlags' /\ Echoes(0, 2)'
           /\ response'[5] = q /\ \A i \in {4} \cup 6 .. 11 : response'[i] = 0
           /\ \A i \in 12 .. ResponseSize - 1 : response'[i] = response[i]
<1> DEFINE hi == noerror_response_flags_hi(request.buf[2])
           lo == noerror_response_flags_lo(request.buf[3])
<1>1. request.buf[2] \in Byte /\ request.buf[3] \in Byte
  <2>1. request.buf \in [0 .. BufferSize - 1 -> Byte] /\ request.len \in 0 .. BufferSize
    BY Zenon DEF CallTypeOK
  <2>2. 2 \in 0 .. BufferSize - 1 /\ 3 \in 0 .. BufferSize - 1
    BY <2>1, MinimalAssumption DEF HeaderFits
  <2> QED
    BY <2>1, <2>2, Zenon
<1>2. hi \in Byte /\ lo \in {0, 16}
  BY <1>1, FlagsAreBytes, Zenon
<1>3. lo \in Byte
  BY <1>2 DEF Byte
<1>4. hi = 128 + 8 * ((request.buf[2] \div 8) % 16) + (request.buf[2] % 2)
  BY Zenon DEF noerror_response_flags_hi
<1>5. response' = WithHeader(response, request, hi, lo, q)
  BY Zenon DEF Noerror
<1>6. request.len >= 12 /\ 12 <= ResponseSize /\ ResponseSize \in Nat
  BY MinimalAssumption DEF HeaderFits, CallTypeOK
<1> HIDE DEF hi, lo
<1>7. response' \in [0 .. ResponseSize - 1 -> Byte]
  BY <1>2, <1>3, <1>5, <1>6, HeaderType, Zenon
<1>8. \A i \in 0 .. 11 : response'[i] = HeaderByte(request, hi, lo, q, i)
  BY <1>5, <1>6 DEF WithHeader
<1>9. response'[2] = hi /\ response'[3] = lo
  BY <1>8 DEF HeaderByte
<1>10. NoerrorFlags'
  BY <1>2, <1>4, <1>9, Zenon DEF NoerrorFlags
<1>11. Echoes(0, 2)'
  BY <1>8 DEF Echoes, HeaderByte
<1>12. response'[5] = q /\ \A i \in {4} \cup 6 .. 11 : response'[i] = 0
  BY <1>8 DEF HeaderByte
<1>13. \A i \in 12 .. ResponseSize - 1 : response'[i] = response[i]
  BY <1>5, <1>6 DEF WithHeader
<1> QED
  BY <1>7, <1>10, <1>11, <1>12, <1>13, Zenon

(* Where the scan stops, it has found the name's length or refused a       *)
(* question that is not well formed.                                       *)
LEMMA ScanStops ==
    ASSUME CallTypeOK, Scanning, ~(pos < request.len /\ label_fits(request, pos, consumed)),
           NEW q, q = IF pos < request.len /\ request.buf[pos] = 0 /\ consumed < NameLimit
                      THEN consumed + 1 ELSE 0
    PROVE  /\ q \in 0 .. NameLimit
           /\ (q # 0 /\ q + 16 = request.len) <=> WellFormedQuestion(request)
           /\ (q # 0 /\ q + 16 = request.len) => check_dns_uncompressed_question_code(q, request)
<1> USE MinimalAssumption
<1>1. /\ pos \in Nat /\ consumed \in Nat /\ pos = 12 + consumed /\ NameLimit \in Nat
      /\ request.len \in Nat /\ consumed <= NameLimit
  BY DEF CallTypeOK, Scanning
<1>2. q \in 0 .. NameLimit
  BY <1>1
<1>3. ASSUME q # 0, q + 16 = request.len
      PROVE  /\ q \in 1 .. NameLimit /\ request.buf[11 + q] = 0
             /\ starts \in SUBSET (12 .. 11 + q) /\ LabelsAt(request.buf, q, starts)
  <2>1. q = consumed + 1 /\ request.buf[pos] = 0 /\ pos = 11 + q /\ q \in 1 .. NameLimit
    BY <1>1, <1>2, <1>3
  <2> QED
    BY <2>1, Zenon DEF Scanning, Passed, LabelsAt
<1>4. ASSUME q # 0, q + 16 = request.len
      PROVE  WellFormedQuestion(request) /\ check_dns_uncompressed_question_code(q, request)
  <2>1. request.len = 12 + q + 4 /\ q + 4 <= request.len - 12
    BY <1>1, <1>2, <1>4
  <2> QED
    BY <1>3, <1>4, <2>1, Zenon DEF WellFormedQuestion, check_dns_uncompressed_question_code
<1>5. ASSUME WellFormedQuestion(request)
      PROVE  q # 0 /\ q + 16 = request.len
  <2>1. PICK n \in 1 .. NameLimit :
            /\ request.len = 12 + n + 4 /\ request.buf[11 + n] = 0
            /\ \E S \in SUBSET (12 .. 11 + n) : LabelsAt(request.buf, n, S)
    BY <1>5, Zenon DEF WellFormedQuestion
  <2>2. PICK S \in SUBSET (12 .. 11 + n) : LabelsAt(request.buf, n, S)
    BY <2>1, Zenon
  <2>3. pos \in S
    BY <2>1, <2>2, Zenon DEF Scanning, Unavoidable
  <2>4. pos \in 12 .. 11 + n /\ pos < request.len
    BY <1>1, <2>1, <2>2, <2>3
  <2>5. CASE pos < 11 + n
    <3>1. request.buf[pos] \in 1 .. LabelLimit /\ pos + 1 + request.buf[pos] \in S
      BY <2>2, <2>3, <2>5, Zenon DEF LabelsAt
    <3>2. pos + 1 + request.buf[pos] \in 12 .. 11 + n
      BY <2>2, <3>1, Zenon
    <3>3. label_fits(request, pos, consumed)
      BY <1>1, <2>1, <3>1, <3>2 DEF label_fits
    <3> QED
      BY <2>4, <3>3, Zenon
  <2>6. CASE pos = 11 + n
    BY <1>1, <2>1, <2>4, <2>6
  <2> QED
    BY <1>1, <2>1, <2>4, <2>5, <2>6
<1> QED
  BY <1>2, <1>4, <1>5, Zenon

(* What a predicate of the request says does not change while the request  *)
(* stays.                                                                  *)
LEMMA SameRequest ==
    ASSUME UNCHANGED <<entry, request, capacity>>
    PROVE  /\ Accepted(request)' = Accepted(request) /\ HeaderFits' = HeaderFits
           /\ valid_doq_request_id(request)' = valid_doq_request_id(request)
           /\ WellFormedQuestion(request)' = WellFormedQuestion(request)
           /\ Eligible' = Eligible
  BY Zenon
     DEF Accepted, valid_doq_request_id, OneQuestion, WellFormedQuestion, LabelsAt, HeaderFits,
         Eligible, QuestionSized

(* A question that is not of a legal size is not well formed.              *)
LEMMA WellFormedSized ==
    ASSUME Accepted(request) PROVE QuestionSized(request) /\ OneQuestion(request)
<1>1. PICK n \in 1 .. NameLimit : request.len = 12 + n + 4
  BY Zenon DEF Accepted, WellFormedQuestion
<1> QED
  BY <1>1, MinimalAssumption DEF Accepted, QuestionSized

----------------------------------------------------------------------------
(* Every call starts in the invariant.                                     *)
LEMMA CallInitInv == CallInit => IInv
  BY MinimalAssumption DEF CallInit, IInv, CallTypeOK, ScanExact, ResponseExact

(* The validated responder's checks before the scan.                       *)
LEMMA ValidatedInv ==
    ASSUME IInv, prepare_worker_validated_minimal_response_send PROVE IInv'
<1>1. CASE ~valid_doq_request_id(request) /\ Return(response, 0)
  BY <1>1, Silent, Zenon DEF prepare_worker_validated_minimal_response_send
<1>2. CASE /\ valid_doq_request_id(request)
           /\ ~(QuestionSized(request) /\ OneQuestion(request))
           /\ prepare_worker_minimal_error_response_send
  <2>1. ~Accepted(request)
    BY <1>2, WellFormedSized, Zenon
  <2> QED
    BY <1>2, <2>1, ErrorResponse, Zenon DEF prepare_worker_validated_minimal_response_send
<1>3. CASE /\ valid_doq_request_id(request) /\ QuestionSized(request) /\ OneQuestion(request)
           /\ at' = "scan"
           /\ UNCHANGED <<arguments, response, scan, qname_length, copied, returned>>
  <2>1. /\ UNCHANGED <<entry, request, capacity, response, pos, consumed, starts, qname_length,
                       copied, returned>>
        /\ at = "idle" /\ entry = "validated"
    BY <1>3, Zenon DEF arguments, scan, prepare_worker_validated_minimal_response_send
  <2>2. Eligible'
    BY <1>3, <2>1, SameRequest, Zenon DEF Eligible
  <2>3. pos' = 12 /\ consumed' = 0 /\ starts' = {12} /\ copied' = 0
    BY <2>1, Zenon DEF IInv
  <2>4. pos' <= request'.len /\ consumed' <= NameLimit
    BY <1>3, <2>1, <2>3, MinimalAssumption DEF QuestionSized, IInv, CallTypeOK
  <2>5. Passed'
    BY <2>3 DEF Passed
  <2>6. Unavoidable'
    BY <2>3, Zenon DEF Unavoidable, LabelsAt
  <2>7. Scanning'
    BY <2>2, <2>3, <2>4, <2>5, <2>6 DEF Scanning
  <2> QED
    BY <1>3, <2>1, <2>3, <2>7 DEF IInv, CallTypeOK, ScanExact, ResponseExact
<1> QED
  BY <1>1, <1>2, <1>3, Zenon DEF prepare_worker_validated_minimal_response_send

(* The empty NOERROR responder.                                            *)
LEMMA EmptyNoerrorInv ==
    ASSUME IInv, EmptyNoerror PROVE IInv'
<1>1. CASE HeaderFits
  <2>1. /\ response' = Noerror(response, request, 0) /\ returned' = 12 /\ at' = "done"
        /\ entry = "noerror"
    BY <1>1, Zenon DEF EmptyNoerror, prepare_worker_empty_noerror_response_send, Return
  <2>2. UNCHANGED <<entry, request, capacity, pos, consumed, starts, qname_length, copied>>
    BY <1>1, Zenon
       DEF EmptyNoerror, prepare_worker_empty_noerror_response_send, Return, arguments, scan
  <2>3. /\ response' \in [0 .. ResponseSize - 1 -> Byte]
        /\ NoerrorFlags' /\ Echoes(0, 2)'
        /\ response'[5] = 0 /\ \A i \in {4} \cup 6 .. 11 : response'[i] = 0
    BY <1>1, <2>1, <2>2, NoerrorHeader, Zenon DEF IInv
  <2>4. 12 \in 0 .. BufferSize /\ 12 <= capacity
    BY <1>1, MinimalAssumption DEF IInv, CallTypeOK, HeaderFits
  <2>5. CallTypeOK'
    BY <2>1, <2>2, <2>3, <2>4, Zenon DEF IInv, CallTypeOK
  <2>6. \A i \in 4 .. 11 : response'[i] = 0
    BY <2>3
  <2>7. ResponseExact'
    BY <2>1, <2>2, <2>3, <2>4, <2>6 DEF ResponseExact
  <2> QED
    BY <2>1, <2>5, <2>7, Zenon DEF IInv, ScanExact
<1>2. CASE ~HeaderFits
  BY <1>2, Silent, Zenon DEF EmptyNoerror, prepare_worker_empty_noerror_response_send
<1> QED
  BY <1>1, <1>2, Zenon

(* The scan steps over a label.                                            *)
LEMMA ScanLabelInv ==
    ASSUME IInv, ScanLabel PROVE IInv'
<1> USE MinimalAssumption
<1>1. /\ UNCHANGED <<entry, request, capacity, response, at, qname_length, copied, returned>>
      /\ at = "scan" /\ Scanning
  BY Zenon DEF ScanLabel, arguments, IInv
<1>2. /\ request.buf[pos] \in 1 .. LabelLimit /\ pos \in Nat /\ consumed \in Nat
      /\ pos + 1 + request.buf[pos] <= request.len
      /\ consumed + 1 + request.buf[pos] <= NameLimit
      /\ pos' = pos + 1 + request.buf[pos] /\ consumed' = consumed + 1 + request.buf[pos]
      /\ starts' = starts \cup {pos'}
  BY Zenon DEF ScanLabel, label_fits, IInv, CallTypeOK
<1>3. pos' = 12 + consumed' /\ pos' <= request'.len /\ consumed' <= NameLimit
      /\ pos' \in Nat /\ consumed' \in Nat /\ starts' \in SUBSET Nat /\ pos < pos'
  <2>1. pos = 12 + consumed /\ starts \in SUBSET Nat /\ request'.len = request.len
    BY <1>1, Zenon DEF Scanning, IInv, CallTypeOK
  <2>2. request.buf[pos] \in Nat /\ 1 <= request.buf[pos]
    BY <1>2
  <2>3. pos' \in Nat /\ consumed' \in Nat /\ pos < pos' /\ pos' = 12 + consumed'
    BY <1>2, <2>1, <2>2
  <2>4. starts' \in SUBSET Nat
    BY <1>2, <2>1, <2>3, Zenon
  <2> QED
    BY <1>2, <2>1, <2>3, <2>4, Zenon
<1>4. Passed'
  <2>1. starts \subseteq 12 .. pos /\ 12 \in starts /\ pos \in starts
    BY <1>1, Zenon DEF Scanning, Passed
  <2>2. starts' \subseteq 12 .. pos'
    BY <1>2, <1>3, <2>1
  <2>3. ASSUME NEW i \in starts', i < pos'
        PROVE  request.buf[i] \in 1 .. LabelLimit /\ i + 1 + request.buf[i] \in starts'
    <3>1. i \in starts /\ i \in 12 .. pos
      BY <1>2, <1>3, <2>1, <2>3
    <3>2. CASE i = pos
      BY <1>2, <3>2, Zenon
    <3>3. CASE i < pos
      BY <1>1, <1>2, <3>1, <3>3, Zenon DEF Scanning, Passed
    <3> QED
      BY <1>2, <3>1, <3>2, <3>3
  <2> QED
    BY <1>1, <1>2, <2>1, <2>2, <2>3, Zenon DEF Passed
<1>5. Unavoidable'
  <2> SUFFICES ASSUME NEW n \in 1 .. NameLimit, NEW S \in SUBSET (12 .. 11 + n),
                      request.buf[11 + n] = 0, LabelsAt(request.buf, n, S)
               PROVE  pos' \in S
    BY <1>1, Zenon DEF Unavoidable, LabelsAt
  <2>1. pos \in S
    BY <1>1, Zenon DEF Scanning, Unavoidable
  <2>2. pos < 11 + n
    BY <1>2, <2>1
  <2> QED
    BY <1>2, <2>1, <2>2, Zenon DEF LabelsAt
<1>6. Scanning'
  BY <1>1, <1>3, <1>4, <1>5, SameRequest, Zenon DEF Scanning
<1> QED
  BY <1>1, <1>3, <1>6, Zenon DEF IInv, CallTypeOK, ScanExact, ResponseExact

(* The scan stops.                                                         *)
LEMMA ScanEndInv ==
    ASSUME IInv, ScanEnd PROVE IInv'
<1>1. /\ UNCHANGED <<entry, request, capacity, response, pos, consumed, starts, copied, returned>>
      /\ at = "scan" /\ at' = "decide" /\ Scanning /\ CallTypeOK
  BY Zenon DEF ScanEnd, arguments, scan, IInv
<1>2. /\ qname_length' \in 0 .. NameLimit
      /\ (qname_length' # 0 /\ qname_length' + 16 = request.len) <=> WellFormedQuestion(request)
      /\ (qname_length' # 0 /\ qname_length' + 16 = request.len)
            => check_dns_uncompressed_question_code(qname_length', request)
  BY <1>1, ScanStops, Zenon DEF ScanEnd
<1>3. CallTypeOK'
  BY <1>1, <1>2, Zenon DEF CallTypeOK
<1>4. ScanExact'
  <2>1. QuestionFills' = (qname_length' # 0 /\ qname_length' + 16 = request.len)
    BY <1>1, Zenon DEF QuestionFills
  <2>2. check_dns_uncompressed_question_code(qname_length, request)'
          = check_dns_uncompressed_question_code(qname_length', request)
    BY <1>1, Zenon DEF check_dns_uncompressed_question_code, LabelsAt
  <2>3. WellFormedQuestion(request)' = WellFormedQuestion(request)
    BY <1>1, SameRequest, Zenon
  <2> QED
    BY <1>2, <2>1, <2>2, <2>3, Zenon DEF ScanExact
<1>5. Eligible'
  BY <1>1, SameRequest, Zenon DEF Scanning
<1> QED
  BY <1>1, <1>3, <1>4, <1>5, Zenon DEF IInv, ResponseExact

(* The validator's verdict chooses the response.                           *)
LEMMA DecideInv ==
    ASSUME IInv, Decide PROVE IInv'
<1>1. at = "decide" /\ Eligible /\ copied = 0 /\ CallTypeOK
  BY Zenon DEF Decide, IInv
<1>2. QuestionFills <=> WellFormedQuestion(request)
  BY <1>1, Zenon DEF IInv, ScanExact
<1>3. QuestionFills => check_dns_uncompressed_question_code(qname_length, request)
  BY <1>1, Zenon DEF IInv, ScanExact
<1>4. QuestionFills <=> Accepted(request)
  BY <1>1, <1>2, Zenon DEF Accepted, Eligible
<1>5. CASE /\ QuestionFills /\ capacity >= request.len /\ at' = "copy"
           /\ UNCHANGED <<arguments, response, scan, qname_length, copied, returned>>
  <2>1. UNCHANGED <<entry, request, capacity, response, pos, consumed, starts, qname_length,
                    copied, returned>>
    BY <1>5, Zenon DEF arguments, scan
  <2>2. Accepted(request)' /\ entry' = "validated" /\ capacity' >= request'.len
    BY <1>1, <1>4, <1>5, <2>1, SameRequest, Zenon DEF Eligible
  <2>3. request.len \in Nat /\ request.len >= 12
    BY <1>1, MinimalAssumption DEF Eligible, valid_doq_request_id, CallTypeOK
  <2>4. Copying'
    BY <1>1, <2>1, <2>2, <2>3 DEF Copying
  <2> QED
    BY <1>5, <2>1, <2>4, Zenon DEF IInv, CallTypeOK, ScanExact, ResponseExact
<1>6. CASE QuestionFills /\ capacity < request.len /\ Return(response, 0)
  BY <1>1, <1>4, <1>6, Silent, Zenon DEF Eligible
<1>7. CASE ~QuestionFills /\ prepare_worker_minimal_error_response_send
  BY <1>1, <1>4, <1>7, ErrorResponse, Zenon DEF Eligible
<1> QED
  BY <1>3, <1>5, <1>6, <1>7, Zenon DEF Decide

(* One byte of the question is copied.                                     *)
LEMMA CopyInv ==
    ASSUME IInv, copy_question_bytes PROVE IInv'
<1> USE MinimalAssumption
<1>1. /\ UNCHANGED <<entry, request, capacity, at, pos, consumed, starts, qname_length, returned>>
      /\ at = "copy" /\ Copying /\ CallTypeOK /\ copied' = copied + 1
      /\ copied # request.len - 12
      /\ response' = [response EXCEPT ![12 + copied] = request.buf[12 + copied]]
  BY Zenon DEF copy_question_bytes, AllCopied, arguments, scan, IInv
<1>2. /\ copied \in Nat /\ request.len \in Nat /\ request.len <= BufferSize
      /\ request.len <= ResponseSize /\ copied' <= request.len - 12
  BY <1>1 DEF CallTypeOK, Copying
<1>3. 12 + copied \in 0 .. BufferSize - 1 /\ 12 + copied \in 0 .. ResponseSize - 1
  BY <1>1, <1>2
<1>4. request.buf[12 + copied] \in Byte
  BY <1>1, <1>3, Zenon DEF CallTypeOK
<1>5. response' \in [0 .. ResponseSize - 1 -> Byte]
  BY <1>1, <1>3, <1>4, Zenon DEF CallTypeOK
<1>6. ASSUME NEW i \in 12 .. 11 + copied' PROVE response'[i] = request.buf[i]
  <2>1. i \in 0 .. ResponseSize - 1
    BY <1>1, <1>2, <1>6
  <2>2. CASE i = 12 + copied
    BY <1>1, <2>1, <2>2, Zenon DEF CallTypeOK
  <2>3. CASE i # 12 + copied
    <3>1. i \in 12 .. 11 + copied
      BY <1>1, <1>2, <1>6, <2>3
    <3> QED
      BY <1>1, <2>1, <2>3, <3>1, Zenon DEF CallTypeOK, Copying
  <2> QED
    BY <2>2, <2>3, Zenon
<1>7. Accepted(request)' /\ entry' = "validated" /\ capacity' >= request'.len
  BY <1>1, SameRequest, Zenon DEF Copying
<1>8. Copying'
  BY <1>1, <1>2, <1>6, <1>7, Zenon DEF Copying
<1>9. CallTypeOK'
  BY <1>1, <1>2, <1>5 DEF CallTypeOK
<1> QED
  BY <1>1, <1>8, <1>9, Zenon DEF IInv, ScanExact, ResponseExact

(* The header is written over the copied question.                         *)
LEMMA WriteHeaderInv ==
    ASSUME IInv, WriteHeader PROVE IInv'
<1> USE MinimalAssumption
<1>1. /\ UNCHANGED <<entry, request, capacity, pos, consumed, starts, qname_length, copied>>
      /\ at = "copy" /\ at' = "done" /\ Copying /\ CallTypeOK /\ copied = request.len - 12
      /\ response' = Noerror(response, request, 1) /\ returned' = request.len
  BY Zenon DEF WriteHeader, Return, AllCopied, arguments, scan, IInv
<1>2. QuestionSized(request) /\ OneQuestion(request)
  BY <1>1, WellFormedSized, Zenon DEF Copying
<1>3. /\ request.len \in 0 .. BufferSize /\ 17 <= request.len /\ request.len <= capacity
      /\ capacity <= ResponseSize
  <2>1. request.len \in 0 .. BufferSize /\ capacity \in 0 .. ResponseSize
    BY <1>1, Zenon DEF CallTypeOK
  <2>2. 17 <= request.len /\ request.len <= capacity
    BY <1>1, <1>2, <2>1, Zenon DEF Copying, QuestionSized
  <2> QED
    BY <2>1, <2>2
<1>4. HeaderFits
  <2>1. capacity \in Nat
    BY <1>1 DEF CallTypeOK
  <2> QED
    BY <1>3, <2>1 DEF HeaderFits
<1>5. /\ response' \in [0 .. ResponseSize - 1 -> Byte]
      /\ NoerrorFlags' /\ Echoes(0, 2)'
      /\ response'[5] = 1 /\ \A i \in {4} \cup 6 .. 11 : response'[i] = 0
      /\ \A i \in 12 .. ResponseSize - 1 : response'[i] = response[i]
  BY <1>1, <1>4, NoerrorHeader, Zenon
<1>6. Echoes(4, request.len)'
  <2> SUFFICES ASSUME NEW i \in 4 .. request.len - 1 PROVE response'[i] = request.buf[i]
    BY <1>1, Zenon DEF Echoes
  <2>1. CASE i \in 4 .. 11
    BY <1>2, <1>5, <2>1 DEF OneQuestion
  <2>2. CASE i \in 12 .. request.len - 1
    <3>1. i \in 12 .. 11 + copied /\ i \in 12 .. ResponseSize - 1
      BY <1>1, <1>3, <2>2 DEF CallTypeOK
    <3> QED
      BY <1>1, <1>5, <3>1, Zenon DEF Copying
  <2> QED
    BY <1>3, <2>1, <2>2
<1>7. /\ Accepted(request)' /\ entry' = "validated"
      /\ valid_doq_request_id(request)' /\ returned' <= capacity' /\ returned' # 0
  BY <1>1, <1>3, SameRequest DEF Copying, Accepted
<1>8. ResponseExact'
  BY <1>1, <1>5, <1>6, <1>7, Zenon DEF ResponseExact
<1>9. CallTypeOK'
  BY <1>1, <1>3, <1>5, Zenon DEF CallTypeOK
<1> QED
  BY <1>1, <1>8, <1>9, Zenon DEF IInv, ScanExact

(* Stuttering.                                                             *)
LEMMA UnchangedInv ==
    ASSUME IInv, UNCHANGED callVars PROVE IInv'
<1>1. UNCHANGED <<entry, request, capacity, response, at, pos, consumed, starts, qname_length,
                  copied, returned>>
  BY Zenon DEF callVars, arguments, scan
<1> QED
  BY <1>1, Zenon
     DEF IInv, CallTypeOK, Scanning, Eligible, Passed, Unavoidable, Copying, ScanExact,
              ResponseExact, QuestionFills, WellFormedQuestion, LabelsAt, Accepted, Echoes,
              NoerrorFlags, HeaderFits, valid_doq_request_id, OneQuestion, QuestionSized,
              check_dns_uncompressed_question_code

(* Every step of a call preserves the invariant.                           *)
LEMMA NextInv ==
    ASSUME IInv, [CallNext]_callVars PROVE IInv'
<1>1. CASE ErrorOnly
  BY <1>1, ErrorResponse, Zenon DEF ErrorOnly
<1> QED
  BY <1>1, ValidatedInv, EmptyNoerrorInv, ScanLabelInv, ScanEndInv, DecideInv, CopyInv,
     WriteHeaderInv, UnchangedInv, Zenon DEF CallNext

(* The invariant holds throughout every call of a responder.               *)
THEOREM Invariance == CallSpec => []IInv
  BY CallInitInv, NextInv, PTL DEF CallSpec

(* The responder's state stays well-typed: no index leaves a buffer.       *)
THEOREM CallTypeCorrect == CallSpec => []CallTypeOK
<1>1. IInv => CallTypeOK
  BY Zenon DEF IInv
<1> QED
  BY <1>1, Invariance, PTL

(* For every limit and every buffer, the scan accepts exactly the          *)
(* well-formed questions and the generated validator agrees with it.       *)
THEOREM ScanCorrect == CallSpec => []ScanExact
<1>1. IInv => ScanExact
  BY Zenon DEF IInv
<1> QED
  BY <1>1, Invariance, PTL

(* Every call of a responder returns the response its request calls for,   *)
(* whatever the response buffer held before.                               *)
THEOREM ResponseCorrect == CallSpec => []ResponseExact
<1>1. IInv => ResponseExact
  BY Zenon DEF IInv
<1> QED
  BY <1>1, Invariance, PTL

----------------------------------------------------------------------------
(* The event queue.                                                        *)

Stored == Event \cup {NoEvent}

(* The ring read from head, count events long, as a sequence.              *)
Ring(r, h, n) ==
    [i \in 1 .. n |-> r[IF h + i - 1 >= QueueCapacity THEN h + i - 1 - QueueCapacity
                        ELSE h + i - 1]]

(* A function on 1 .. n is a sequence of length n.                         *)
LEMMA FunctionIsSequence ==
    ASSUME NEW S, NEW n \in Nat, NEW f \in [1 .. n -> S]
    PROVE  f \in Seq(S) /\ Len(f) = n
OBVIOUS

(* The ring's contents are a sequence of its count.                        *)
LEMMA RingSequence ==
    ASSUME NEW r \in [Index -> Stored], NEW h \in Index, NEW n \in 0 .. QueueCapacity
    PROVE  Ring(r, h, n) \in Seq(Stored) /\ Len(Ring(r, h, n)) = n
<1>1. QueueCapacity \in Nat \ {0}
  BY QueueConstants, Zenon
<1>2. ASSUME NEW i \in 1 .. n
      PROVE  (IF h + i - 1 >= QueueCapacity THEN h + i - 1 - QueueCapacity
              ELSE h + i - 1) \in Index
  BY <1>1 DEF Index
<1>3. Ring(r, h, n) \in [1 .. n -> Stored]
  BY <1>2, Zenon DEF Ring
<1> QED
  BY <1>1, <1>3, FunctionIsSequence

(* Storing at the tail appends.                                            *)
LEMMA RingAppend ==
    ASSUME NEW r \in [Index -> Stored], NEW h \in Index, NEW n \in 0 .. QueueCapacity - 1,
           NEW e \in Stored, NEW t \in Index,
           t = IF h + n >= QueueCapacity THEN h + n - QueueCapacity ELSE h + n
    PROVE  Ring([r EXCEPT ![t] = e], h, n + 1) = Append(Ring(r, h, n), e)
<1> DEFINE u == [r EXCEPT ![t] = e]
           place(i) == IF h + i - 1 >= QueueCapacity THEN h + i - 1 - QueueCapacity
                    ELSE h + i - 1
<1>1. /\ QueueCapacity \in Nat \ {0} /\ n \in Nat
      /\ n \in 0 .. QueueCapacity /\ n + 1 \in 0 .. QueueCapacity
  BY QueueConstants
<1>2. u \in [Index -> Stored]
  OBVIOUS
<1>3. /\ Ring(r, h, n) \in Seq(Stored) /\ Len(Ring(r, h, n)) = n
      /\ Ring(u, h, n + 1) \in Seq(Stored) /\ Len(Ring(u, h, n + 1)) = n + 1
  BY <1>1, <1>2, RingSequence, Zenon
<1>4. ASSUME NEW i \in 1 .. n PROVE Ring(u, h, n + 1)[i] = Ring(r, h, n)[i]
  <2>1. place(i) \in Index /\ place(i) # t
    BY <1>1 DEF Index
  <2>2. u[place(i)] = r[place(i)]
    BY <2>1, Zenon
  <2>3. i \in 1 .. n + 1
    BY <1>1
  <2> QED
    BY <2>2, <2>3, Zenon DEF Ring
<1>5. Ring(u, h, n + 1)[n + 1] = e
  <2>1. place(n + 1) = t /\ n + 1 \in 1 .. n + 1
    BY <1>1 DEF Index
  <2>2. u[t] = e
    OBVIOUS
  <2> QED
    BY <2>1, <2>2, Zenon DEF Ring
<1> HIDE DEF u
<1>6. /\ Append(Ring(r, h, n), e) \in Seq(Stored)
      /\ Len(Append(Ring(r, h, n), e)) = n + 1
      /\ \A i \in 1 .. n : Append(Ring(r, h, n), e)[i] = Ring(r, h, n)[i]
      /\ Append(Ring(r, h, n), e)[n + 1] = e
  BY <1>1, <1>3
<1>7. \A i \in 1 .. n + 1 : Ring(u, h, n + 1)[i] = Append(Ring(r, h, n), e)[i]
  BY <1>1, <1>4, <1>5, <1>6
<1>8. Ring(u, h, n + 1) = Append(Ring(r, h, n), e)
  BY <1>3, <1>6, <1>7, SeqEqual, Zenon
<1> QED
  BY <1>8, Zenon DEF u

(* Moving head past the oldest event drops it.                             *)
LEMMA RingTail ==
    ASSUME NEW r \in [Index -> Stored], NEW h \in Index, NEW n \in 1 .. QueueCapacity,
           NEW k \in Index, k = IF h + 1 >= QueueCapacity THEN 0 ELSE h + 1
    PROVE  /\ Ring(r, k, n - 1) = Tail(Ring(r, h, n))
           /\ Head(Ring(r, h, n)) = r[h]
           /\ Ring(r, h, n) # << >>
<1>1. QueueCapacity \in Nat \ {0} /\ n \in Nat /\ n - 1 \in 0 .. QueueCapacity
  BY QueueConstants
<1>2. /\ Ring(r, h, n) \in Seq(Stored) /\ Len(Ring(r, h, n)) = n
      /\ Ring(r, k, n - 1) \in Seq(Stored) /\ Len(Ring(r, k, n - 1)) = n - 1
  BY <1>1, RingSequence
<1>3. ASSUME NEW i \in 1 .. n - 1 PROVE Ring(r, k, n - 1)[i] = Ring(r, h, n)[i + 1]
  BY <1>1 DEF Ring, Index
<1>4. Ring(r, h, n)[1] = r[h]
  BY <1>1 DEF Ring, Index
<1>5. /\ Tail(Ring(r, h, n)) \in Seq(Stored)
      /\ Len(Tail(Ring(r, h, n))) = n - 1
      /\ \A i \in 1 .. n - 1 : Tail(Ring(r, h, n))[i] = Ring(r, h, n)[i + 1]
      /\ Head(Ring(r, h, n)) = Ring(r, h, n)[1]
      /\ Ring(r, h, n) # << >>
  BY <1>1, <1>2
<1>6. \A i \in 1 .. n - 1 : Ring(r, k, n - 1)[i] = Tail(Ring(r, h, n))[i]
  BY <1>3, <1>5, Zenon
<1>7. Ring(r, k, n - 1) = Tail(Ring(r, h, n))
  BY <1>2, <1>5, <1>6, SeqEqual, Zenon
<1> QED
  BY <1>4, <1>5, <1>7, Zenon

----------------------------------------------------------------------------
(* The sum of head and count does not overflow the word.                   *)
LEMMA NoWrap ==
    ASSUME QueueTypeOK
    PROVE  /\ count < QueueCapacity =>
                /\ TailIndex = IF head + count >= QueueCapacity
                               THEN head + count - QueueCapacity ELSE head + count
                /\ TailIndex \in Index
           /\ NextHead = IF head + 1 >= QueueCapacity THEN 0 ELSE head + 1
           /\ NextHead \in Index
<1>1. /\ QueueCapacity \in Nat \ {0} /\ Word \in Nat /\ 2 * QueueCapacity <= Word
      /\ head \in 0 .. QueueCapacity - 1 /\ count \in 0 .. QueueCapacity
  BY QueueConstants, Zenon DEF QueueTypeOK, Index
<1>2. \A k \in 0 .. Word - 1 : k % Word = k
  BY <1>1
<1>3. head + 1 \in 0 .. Word - 1
  BY <1>1
<1>4. count < QueueCapacity => head + count \in 0 .. Word - 1
  BY <1>1
<1>5. (head + 1) % Word = head + 1
  BY <1>2, <1>3, Zenon
<1>6. count < QueueCapacity => (head + count) % Word = head + count
  BY <1>2, <1>4, Zenon
<1> QED
  BY <1>1, <1>5, <1>6 DEF TailIndex, NextHead, Index

(* Every index and count stays in the ring.                                *)
LEMMA QueueTypeStep ==
    ASSUME QueueTypeOK, [QueueNext]_queueVars PROVE QueueTypeOK'
<1>1. QueueCapacity \in Nat \ {0}
  BY QueueConstants, Zenon
<1>2. ASSUME NEW e \in Event, EnqueueAccepted(e) PROVE QueueTypeOK'
  BY <1>1, <1>2, NoWrap DEF EnqueueAccepted, QueueTypeOK
<1>3. CASE DequeueAccepted
  BY <1>1, <1>3, NoWrap DEF DequeueAccepted, QueueTypeOK
<1>4. ASSUME NEW op \in {"enqueue", "dequeue"}, Refused(op) PROVE QueueTypeOK'
  BY <1>4, Zenon DEF Refused, QueueTypeOK
<1>5. CASE UNCHANGED queueVars
  BY <1>5, Zenon DEF queueVars, QueueTypeOK
<1> QED
  BY <1>2, <1>3, <1>4, <1>5, Zenon DEF QueueNext, Enqueue, Dequeue

(* The ring's indices never leave it and at most QueueCapacity events are  *)
(* held (enqueue, dequeue), whatever the capacity.                         *)
THEOREM QueueTypeCorrect == QueueSpec => []QueueTypeOK
<1>1. QueueInit => QueueTypeOK
  BY QueueConstants DEF QueueInit, QueueTypeOK, Index
<1> QED
  BY <1>1, QueueTypeStep, PTL DEF QueueSpec

----------------------------------------------------------------------------
(* What the ring holds is Ring of its variables.                           *)
LEMMA HeldIsRing ==
    ASSUME QueueTypeOK
    PROVE  Held = Ring(events, head, count) /\ Held \in Seq(Stored) /\ Len(Held) = count
<1>1. Held = Ring(events, head, count)
  BY Zenon DEF Held, RingIndex, Ring
<1>2. events \in [Index -> Stored] /\ head \in Index /\ count \in 0 .. QueueCapacity
  BY Zenon DEF QueueTypeOK, Stored
<1> QED
  BY <1>1, <1>2, RingSequence, Zenon

(* Each call of the ring is the queue's.                                   *)
LEMMA PutStep ==
    ASSUME QueueTypeOK, QueueTypeOK', NEW e \in Event, EnqueueAccepted(e)
    PROVE  AbstractQueue!Put(e)
<1>1. /\ events \in [Index -> Stored] /\ head \in Index /\ count \in 0 .. QueueCapacity
      /\ e \in Stored
  BY Zenon DEF QueueTypeOK, Stored
<1>2. /\ count < QueueCapacity /\ count \in 0 .. QueueCapacity - 1
      /\ events' = [events EXCEPT ![TailIndex] = e] /\ count' = count + 1 /\ head' = head
      /\ ret' = [call |-> "enqueue", ok |-> TRUE, event |-> NoEvent]
  BY <1>1, QueueConstants DEF EnqueueAccepted
<1>3. /\ TailIndex \in Index
      /\ TailIndex = IF head + count >= QueueCapacity THEN head + count - QueueCapacity
                     ELSE head + count
  BY <1>2, NoWrap, Zenon
<1>4. Ring(events', head', count') = Append(Ring(events, head, count), e)
  BY <1>1, <1>2, <1>3, RingAppend, Zenon
<1>5. Held' = Ring(events', head', count')
  BY Zenon DEF Held, RingIndex, Ring
<1>6. Held' = Append(Held, e) /\ Len(Held) < QueueCapacity
  BY <1>2, <1>4, <1>5, HeldIsRing, Zenon
<1> QED
  BY <1>2, <1>6, Zenon DEF AbstractQueue!Put

(* dequeue returns the oldest event and advances the head: a Get of the FIFO. *)
LEMMA GetStep ==
    ASSUME QueueTypeOK, QueueTypeOK', DequeueAccepted
    PROVE  AbstractQueue!Get
<1>1. events \in [Index -> Stored] /\ head \in Index /\ count \in 0 .. QueueCapacity
  BY Zenon DEF QueueTypeOK, Stored
<1>2. /\ count \in 1 .. QueueCapacity
      /\ ret' = [call |-> "dequeue", ok |-> TRUE, event |-> events[head]]
      /\ head' = NextHead /\ count' = count - 1 /\ events' = events
  BY <1>1, QueueConstants DEF DequeueAccepted
<1>3. NextHead \in Index /\ NextHead = IF head + 1 >= QueueCapacity THEN 0 ELSE head + 1
  BY NoWrap, Zenon
<1>4. /\ Ring(events', head', count') = Tail(Ring(events, head, count))
      /\ Head(Ring(events, head, count)) = events[head]
      /\ Ring(events, head, count) # << >>
  BY <1>1, <1>2, <1>3, RingTail, Zenon
<1>5. Held' = Ring(events', head', count')
  BY Zenon DEF Held, RingIndex, Ring
<1>6. Held' = Tail(Held) /\ Head(Held) = events[head] /\ Held # << >>
  BY <1>4, <1>5, HeldIsRing, Zenon
<1> QED
  BY <1>2, <1>6, Zenon DEF AbstractQueue!Get

(* A call is refused exactly when the queue is full, or empty.             *)
LEMMA RefuseStep ==
    ASSUME QueueTypeOK,
           \/ count >= QueueCapacity /\ Refused("enqueue")
           \/ count = 0 /\ Refused("dequeue")
    PROVE  \E op \in {"enqueue", "dequeue"} : AbstractQueue!Refuse(op)
<1>1. count \in 0 .. QueueCapacity /\ QueueCapacity \in Nat
  BY QueueConstants, Zenon DEF QueueTypeOK
<1>2. events' = events /\ head' = head /\ count' = count
  BY Zenon DEF Refused
<1>3. Held' = Held
  BY <1>2, Zenon DEF Held, RingIndex
<1>4. Held \in Seq(Stored) /\ Len(Held) = count
  BY HeldIsRing, Zenon
<1>5. CASE count >= QueueCapacity /\ Refused("enqueue")
  <2>1. Len(Held) = QueueCapacity
    BY <1>1, <1>4, <1>5
  <2>2. AbstractQueue!Refuse("enqueue")
    BY <1>3, <1>5, <2>1, Zenon DEF AbstractQueue!Refuse, Refused
  <2> QED
    BY <2>2, Zenon
<1>6. CASE count = 0 /\ Refused("dequeue")
  <2>1. Held = << >>
    BY <1>4, <1>6, EmptySeq, Zenon
  <2>2. AbstractQueue!Refuse("dequeue")
    BY <1>3, <1>6, <2>1, Zenon DEF AbstractQueue!Refuse, Refused
  <2> QED
    BY <2>2, Zenon
<1> QED
  BY <1>5, <1>6, Zenon

(* The ring of ism_event_queue.c is a first-in first-out queue: nothing is *)
(* lost, duplicated or reordered across any number of wrap-arounds, and    *)
(* only a full ring refuses an event.                                      *)
THEOREM QueueRefinement == QueueSpec => ImplementsFifo
<1>1. QueueInit => AbstractQueue!Init
  <2> SUFFICES ASSUME QueueInit PROVE AbstractQueue!Init
    OBVIOUS
  <2>1. QueueTypeOK /\ count = 0
    BY QueueConstants DEF QueueInit, QueueTypeOK, Index
  <2>2. Held \in Seq(Stored) /\ Len(Held) = 0
    BY <2>1, HeldIsRing, Zenon
  <2>3. Held = << >>
    BY <2>2, EmptySeq, Zenon
  <2> QED
    BY <2>3, Zenon DEF QueueInit, AbstractQueue!Init
<1>2. QueueTypeOK /\ QueueTypeOK' /\ [QueueNext]_queueVars => [AbstractQueue!Next]_(AbstractQueue!vars)
  <2> SUFFICES ASSUME QueueTypeOK, QueueTypeOK', [QueueNext]_queueVars
               PROVE  [AbstractQueue!Next]_(AbstractQueue!vars)
    OBVIOUS
  <2>1. CASE DequeueAccepted
    BY <2>1, GetStep, Zenon DEF AbstractQueue!Next
  <2>2. ASSUME NEW e \in Event, EnqueueAccepted(e) PROVE AbstractQueue!Next
    BY <2>2, PutStep, Zenon DEF AbstractQueue!Next
  <2>3. CASE \/ count >= QueueCapacity /\ Refused("enqueue")
             \/ count = 0 /\ Refused("dequeue")
    BY <2>3, RefuseStep, Zenon DEF AbstractQueue!Next
  <2>4. CASE UNCHANGED queueVars
    BY <2>4, Zenon DEF queueVars, AbstractQueue!vars, Held, RingIndex
  <2> QED
    BY <2>1, <2>2, <2>3, <2>4, Zenon DEF QueueNext, Enqueue, Dequeue
<1> QED
  BY <1>1, <1>2, QueueTypeCorrect, PTL DEF QueueSpec, ImplementsFifo, AbstractQueue!Spec

----------------------------------------------------------------------------
(* The reservation protocol of the Pulse candidate, for every capacity,    *)
(* every set of stream ids and every initial table with distinct pointers. *)

(* A set of naturals has a least element.                                  *)
LEMMA LeastNatural ==
    ASSUME NEW T \in SUBSET Nat, T # {}
    PROVE  \E x \in T : \A y \in T : x <= y
<1> DEFINE R == {ss \in Nat \X Nat : ss[1] < ss[2]}
<1>1. IsWellFoundedOn(R, Nat)
  BY NatLessThanWellFounded, Zenon DEF OpToRel
<1> HIDE DEF R
<1>2. PICK x \in T : \A y \in T : ~(<<y, x>> \in R)
  BY <1>1, WFMin, Zenon
<1>3. ASSUME NEW y \in T PROVE x <= y
  <2>1. ~(y < x)
    BY <1>2, Zenon DEF R
  <2> QED
    BY <2>1
<1> QED
  BY <1>3, Zenon

(* table_ok, on a table value.                                             *)
GoodSendTable(w) ==
    /\ w \in [order : [Slot -> Slot], slot : [Slot -> Context],
              count : 0 .. Capacity, capacity : 0 .. Capacity]
    /\ w.count <= w.capacity
    /\ OrderDistinct(w)

(* The inductive invariant.                                                *)
SendInv == SendTypeOK /\ OrderDistinct(table) /\ ReservationTracks

(* A lookup that hits finds a position of the active prefix.               *)
LEMMA FirstHitActive ==
    ASSUME NEW w, GoodSendTable(w), NEW id, Hits(w, id) # {}
    PROVE  /\ FirstHit(w, id) \in Active(w)
           /\ w.slot[w.order[FirstHit(w, id)]].id = id
           /\ Active(w) \subseteq Slot
<1>1. w.count \in 0 .. Capacity /\ Capacity \in Nat
  BY CapacityAssumption, Zenon DEF GoodSendTable
<1>2. Active(w) \subseteq Slot /\ Active(w) \subseteq Nat
  BY <1>1 DEF Active, Slot
<1>3. Hits(w, id) \in SUBSET Nat
  BY <1>2, Zenon DEF Hits
<1>4. \E i \in Hits(w, id) : \A j \in Hits(w, id) : i <= j
  BY <1>3, LeastNatural, Zenon
<1>5. FirstHit(w, id) \in Hits(w, id)
  BY <1>4, Zenon DEF FirstHit
<1> QED
  BY <1>2, <1>5, Zenon DEF Hits

(* close_index takes out the context at position i and no other; a context *)
(* that stays is found where the code says it moved.                       *)
LEMMA CloseIndex ==
    ASSUME NEW w, GoodSendTable(w), NEW i \in Active(w)
    PROVE  /\ GoodSendTable(close_index(w, i))
           /\ close_index(w, i).slot = w.slot
           /\ OpenSlots(close_index(w, i)) = OpenSlots(w) \ {w.order[i]}
           /\ \A k \in Active(w) \ {i} :
                 /\ (IF k = w.count - 1 THEN i ELSE k) \in Active(close_index(w, i))
                 /\ close_index(w, i).order[IF k = w.count - 1 THEN i ELSE k] = w.order[k]
<1> DEFINE u == close_index(w, i)
           last == w.count - 1
<1>1. /\ w.order \in [Slot -> Slot] /\ w.slot \in [Slot -> Context]
      /\ w.count \in 0 .. Capacity /\ w.capacity \in 0 .. Capacity
      /\ w.count <= w.capacity
      /\ \A j, k \in Slot : w.order[j] = w.order[k] => j = k
  BY Zenon DEF GoodSendTable, OrderDistinct
<1>2. Capacity \in Nat
  BY CapacityAssumption, Zenon
<1>3. /\ i \in Slot /\ last \in Slot /\ i \in Int /\ last \in Int
      /\ 0 <= i /\ i <= last
  BY <1>1, <1>2 DEF Active, Slot
<1>4. u = [w EXCEPT !.order = [w.order EXCEPT ![i] = w.order[last], ![last] = w.order[i]],
                    !.count = last]
  BY Zenon DEF close_index
<1>5. /\ u.order = [w.order EXCEPT ![i] = w.order[last], ![last] = w.order[i]]
      /\ u.count = last /\ u.slot = w.slot /\ u.capacity = w.capacity
  BY <1>4, Zenon DEF GoodSendTable
<1>6. u \in [order : [Slot -> Slot], slot : [Slot -> Context],
             count : 0 .. Capacity, capacity : 0 .. Capacity]
  <2>1. [w.order EXCEPT ![i] = w.order[last], ![last] = w.order[i]] \in [Slot -> Slot]
    BY <1>1, <1>3, Zenon
  <2>2. last \in 0 .. Capacity
    BY <1>1, <1>2, <1>3
  <2> QED
    BY <1>4, <2>1, <2>2 DEF GoodSendTable
<1> HIDE DEF u
<1>7. /\ \A k \in Slot \ {i, last} : u.order[k] = w.order[k]
      /\ u.order[i] = w.order[last] /\ u.order[last] = w.order[i]
  BY <1>1, <1>3, <1>5, Zenon
<1>8. OrderDistinct(u)
  BY <1>1, <1>3, <1>7 DEF OrderDistinct
<1>9. Active(u) = 0 .. last - 1 /\ Active(w) = 0 .. last
  BY <1>1, <1>2, <1>5, Zenon DEF Active
<1>10. Active(w) \subseteq Slot
  BY <1>1, <1>2 DEF Active, Slot
<1>11. ASSUME NEW k \in Active(w), k # i
       PROVE  /\ (IF k = last THEN i ELSE k) \in Active(u)
              /\ u.order[IF k = last THEN i ELSE k] = w.order[k]
  BY <1>3, <1>7, <1>9, <1>10, <1>11
<1>12. OpenSlots(u) = OpenSlots(w) \ {w.order[i]}
  <2>1. ASSUME NEW k \in Active(u)
        PROVE  /\ u.order[k] \in OpenSlots(w)
               /\ u.order[k] # w.order[i]
    <3>1. k \in Slot /\ k \in Active(w) /\ k # last /\ last \in Active(w)
      BY <1>3, <1>9, <1>10
    <3>2. CASE k = i
      <4>1. u.order[k] = w.order[last] /\ last # i
        BY <1>7, <3>1, <3>2, Zenon
      <4> QED
        BY <1>1, <1>3, <3>1, <4>1, Zenon DEF OpenSlots
    <3>3. CASE k # i
      <4>1. u.order[k] = w.order[k]
        BY <1>7, <3>1, <3>3, Zenon
      <4> QED
        BY <1>1, <1>3, <3>1, <3>3, <4>1, Zenon DEF OpenSlots
    <3> QED
      BY <3>2, <3>3, Zenon
  <2>2. ASSUME NEW k \in Active(w), w.order[k] # w.order[i]
        PROVE  w.order[k] \in OpenSlots(u)
    BY <1>11, <2>2, Zenon DEF OpenSlots
  <2> QED
    BY <2>1, <2>2, Zenon DEF OpenSlots
<1> QED
  BY <1>1, <1>3, <1>5, <1>6, <1>8, <1>11, <1>12 DEF GoodSendTable, u

(* An allocation writes to a slot outside the active prefix, or nowhere.   *)
LEMMA Allocate ==
    ASSUME NEW w, GoodSendTable(w), NEW id \in SendId
    PROVE  /\ GoodSendTable(pulse_allocate(w, id, Empty).w)
           /\ pulse_allocate(w, id, Empty).w.order = w.order
           /\ w.count <= pulse_allocate(w, id, Empty).w.count
           /\ \A i \in Active(w) :
                 pulse_allocate(w, id, Empty).w.slot[w.order[i]] = w.slot[w.order[i]]
<1> DEFINE u == pulse_allocate(w, id, Empty).w
           free == w.order[w.count]
           fresh == [w.slot EXCEPT ![free] = [@ EXCEPT !.id = id, !.phase = Empty]]
<1>1. /\ w.order \in [Slot -> Slot] /\ w.slot \in [Slot -> Context]
      /\ w.count \in 0 .. Capacity /\ w.capacity \in 0 .. Capacity
      /\ w.count <= w.capacity
      /\ \A j, k \in Slot : w.order[j] = w.order[k] => j = k
  BY Zenon DEF GoodSendTable, OrderDistinct
<1>2. Capacity \in Nat
  BY CapacityAssumption, Zenon
<1>3. CASE Hits(w, id) # {} \/ w.count >= w.capacity
  <2>1. u = w
    BY <1>3, Zenon DEF pulse_allocate
  <2> QED
    BY <1>1, <2>1
<1>4. CASE ~(Hits(w, id) # {} \/ w.count >= w.capacity)
  <2>1. u = [w EXCEPT !.slot = fresh, !.count = w.count + 1]
    BY <1>4, Zenon DEF pulse_allocate
  <2>2. w.count \in Slot /\ free \in Slot /\ w.count + 1 \in 0 .. Capacity
        /\ w.count + 1 <= w.capacity
    BY <1>1, <1>2, <1>4 DEF Slot
  <2>3. [w.slot[free] EXCEPT !.id = id, !.phase = Empty] \in Context
    <3>1. w.slot[free] \in Context
      BY <1>1, <2>2, Zenon
    <3> QED
      BY <3>1, Zenon DEF Context
  <2>4. fresh \in [Slot -> Context]
    BY <1>1, <2>2, <2>3, Zenon
  <2> HIDE DEF fresh
  <2>5. /\ u \in [order : [Slot -> Slot], slot : [Slot -> Context],
                  count : 0 .. Capacity, capacity : 0 .. Capacity]
        /\ u.order = w.order /\ u.count = w.count + 1 /\ u.capacity = w.capacity
        /\ u.slot = fresh
    BY <2>1, <2>2, <2>4, Zenon DEF GoodSendTable
  <2>6. ASSUME NEW i \in Active(w) PROVE fresh[w.order[i]] = w.slot[w.order[i]]
    <3>1. i \in Slot /\ i # w.count
      BY <1>1, <1>2 DEF Active, Slot
    <3>2. w.order[i] # free /\ w.order[i] \in Slot
      BY <1>1, <2>2, <3>1, Zenon
    <3> QED
      BY <1>1, <3>2, Zenon DEF fresh
  <2> HIDE DEF u
  <2>7. GoodSendTable(u)
    BY <1>1, <2>2, <2>5, Zenon DEF GoodSendTable, OrderDistinct
  <2> QED
    BY <1>1, <2>5, <2>6, <2>7 DEF u
<1> QED
  BY <1>3, <1>4

----------------------------------------------------------------------------
(* Steps.  What each operation does to the table and the reservation.      *)

(* A close while a send is pending moves the cursor with its context.      *)
LEMMA CloseOtherStep ==
    ASSUME SendInv, NEW id \in SendId, close_other(id)
    PROVE  /\ SendInv'
           /\ slot'.pending /\ held' = held
           /\ held \in OpenSlots(table') /\ table'.slot[held] = table.slot[held]
<1> DEFINE i == FirstHit(table, id)
           u == close_index(table, i)
<1>1. GoodSendTable(table) /\ table.count \in Nat
  BY DEF SendInv, SendTypeOK, GoodSendTable
<1>2. /\ slot.pending /\ id # slot.id /\ Hits(table, id) # {}
      /\ table' = u /\ held' = held
      /\ slot' = [slot EXCEPT !.index = IF slot.index = table.count - 1 THEN i ELSE slot.index]
  BY Zenon DEF close_other
<1>3. i \in Active(table) /\ table.slot[table.order[i]].id = id /\ i \in Slot
  BY <1>1, <1>2, FirstHitActive, Zenon
<1>4. /\ slot \in [pending : BOOLEAN, id : SendId, index : Slot]
      /\ held \in Slot \cup {NULL}
      /\ slot.index < table.count
      /\ table.order[slot.index] = held /\ table.slot[held].id = slot.id
  BY <1>2, Zenon DEF SendInv, SendTypeOK, ReservationTracks
<1>5. slot.index \in Active(table) \ {i}
  <2>1. slot.index # i
    BY <1>2, <1>3, <1>4, Zenon
  <2>2. slot.index \in Int /\ 0 <= slot.index
    BY <1>4 DEF Slot
  <2> QED
    BY <1>1, <1>4, <2>1, <2>2 DEF Active
<1> HIDE DEF i
<1>6. /\ slot'.pending /\ slot'.id = slot.id
      /\ slot'.index = IF slot.index = table.count - 1 THEN i ELSE slot.index
      /\ slot' \in [pending : BOOLEAN, id : SendId, index : Slot]
  BY <1>2, <1>3, <1>4, Zenon
<1>7. GoodSendTable(u) /\ u.slot = table.slot
  BY <1>1, <1>3, CloseIndex
<1>8. slot'.index \in Active(u) /\ u.order[slot'.index] = held
  BY <1>1, <1>3, <1>4, <1>5, <1>6, CloseIndex
<1> HIDE DEF u
<1>9. u.count \in Int /\ slot'.index < u.count
  BY <1>7, <1>8 DEF Active, GoodSendTable
<1>10. SendTypeOK' /\ OrderDistinct(table)'
  BY <1>2, <1>4, <1>6, <1>7, Zenon DEF SendTypeOK, GoodSendTable
<1>11. ReservationTracks'
  BY <1>2, <1>4, <1>6, <1>7, <1>8, <1>9, Zenon DEF ReservationTracks
<1>12. held \in OpenSlots(u)
  BY <1>8, Zenon DEF OpenSlots
<1> QED
  BY <1>2, <1>6, <1>7, <1>10, <1>11, <1>12, Zenon DEF SendInv

(* The completion of the reserved id takes out the reserved context.       *)
LEMMA FinishSendStep ==
    ASSUME SendInv, NEW id \in SendId, finish_send(id)
    PROVE  /\ SendInv'
           /\ ~slot'.pending
           /\ OpenSlots(table') = OpenSlots(table) \ {held}
<1> DEFINE u == close_index(table, slot.index)
<1>1. GoodSendTable(table) /\ table.count \in Nat
  BY DEF SendInv, SendTypeOK, GoodSendTable
<1>2. slot.pending /\ table' = u /\ slot' = None /\ held' = NULL
  BY Zenon DEF finish_send
<1>3. /\ slot.index \in Slot /\ slot.index < table.count
      /\ table.order[slot.index] = held
  BY <1>2, Zenon DEF SendInv, SendTypeOK, ReservationTracks
<1>4. slot.index \in Active(table)
  BY <1>1, <1>3 DEF Active, Slot
<1>5. GoodSendTable(u) /\ OpenSlots(u) = OpenSlots(table) \ {held}
  BY <1>1, <1>3, <1>4, CloseIndex, Zenon
<1> HIDE DEF u
<1>6. ~slot'.pending /\ slot' \in [pending : BOOLEAN, id : SendId, index : Slot]
  BY <1>2, SendConstants, CapacityAssumption DEF None, Slot
<1>7. SendTypeOK' /\ OrderDistinct(table)'
  BY <1>2, <1>5, <1>6, Zenon DEF SendTypeOK, GoodSendTable
<1> QED
  BY <1>2, <1>5, <1>6, <1>7, Zenon DEF SendInv, ReservationTracks

(* A stream opened while a send is pending does not touch its context.     *)
LEMMA AllocatePendingStep ==
    ASSUME SendInv, NEW id \in SendId, allocate_while_pending(id)
    PROVE  /\ SendInv'
           /\ slot'.pending /\ held' = held
           /\ held \in OpenSlots(table') /\ table'.slot[held] = table.slot[held]
<1> DEFINE u == pulse_allocate(table, id, Empty).w
<1>1. GoodSendTable(table) /\ table.count \in Nat
  BY DEF SendInv, SendTypeOK, GoodSendTable
<1>2. slot.pending /\ table' = u /\ slot' = slot /\ held' = held
  BY Zenon DEF allocate_while_pending
<1>3. /\ slot.index \in Slot /\ slot.index < table.count
      /\ table.order[slot.index] = held /\ table.slot[held].id = slot.id
  BY <1>2, Zenon DEF SendInv, SendTypeOK, ReservationTracks
<1>4. slot.index \in Active(table)
  BY <1>1, <1>3 DEF Active, Slot
<1>5. /\ GoodSendTable(u) /\ u.order = table.order /\ table.count <= u.count
      /\ u.slot[held] = table.slot[held]
  BY <1>1, <1>3, <1>4, Allocate
<1> HIDE DEF u
<1>6. slot.index \in Active(u) /\ slot.index < u.count
  <2>1. u.count \in Int
    BY <1>5 DEF GoodSendTable
  <2> QED
    BY <1>1, <1>3, <1>5, <2>1 DEF Active, Slot
<1>7. SendTypeOK' /\ OrderDistinct(table)'
  BY <1>2, <1>5, Zenon DEF SendInv, SendTypeOK, GoodSendTable
<1>8. held \in OpenSlots(u)
  BY <1>3, <1>5, <1>6 DEF OpenSlots
<1> QED
  BY <1>2, <1>3, <1>5, <1>6, <1>7, <1>8, Zenon DEF SendInv, ReservationTracks

(* begin_send reserves the context it finds.                               *)
LEMMA BeginStep ==
    ASSUME SendInv, NEW id \in SendId, begin_send(id)
    PROVE  SendInv' /\ ~slot.pending
<1> DEFINE i == FirstHit(table, id)
<1>1. GoodSendTable(table) /\ table.count \in Nat
  BY DEF SendInv, SendTypeOK, GoodSendTable
<1>2. /\ ~slot.pending /\ Hits(table, id) # {} /\ table' = table
      /\ slot' = [pending |-> TRUE, id |-> id, index |-> i]
      /\ held' = table.order[i]
  BY Zenon DEF begin_send, find_index
<1>3. /\ i \in Active(table) /\ i \in Slot
      /\ table.slot[table.order[i]].id = id
  BY <1>1, <1>2, FirstHitActive
<1> HIDE DEF i
<1>4. i < table.count /\ table.order[i] \in Slot
  BY <1>1, <1>3 DEF Active, GoodSendTable
<1>5. SendTypeOK' /\ OrderDistinct(table)'
  BY <1>2, <1>3, <1>4, Zenon DEF SendInv, SendTypeOK
<1> QED
  BY <1>2, <1>3, <1>4, <1>5 DEF SendInv, ReservationTracks

(* The table's own operations keep it good while nothing is reserved.      *)
LEMMA IdleStep ==
    ASSUME SendInv, NEW id \in SendId,
           allocate_stream_idle(id) \/ close_stream_idle(id)
    PROVE  SendInv' /\ ~slot.pending /\ ~slot'.pending
<1>1. GoodSendTable(table)
  BY Zenon DEF SendInv, SendTypeOK, GoodSendTable
<1>2. ~slot.pending /\ slot' = slot /\ held' = held
  BY DEF allocate_stream_idle, close_stream_idle
<1>3. GoodSendTable(table')
  <2>1. CASE allocate_stream_idle(id)
    <3>1. table' = pulse_allocate(table, id, Empty).w
      BY <2>1, Zenon DEF allocate_stream_idle
    <3> QED
      BY <1>1, <3>1, Allocate, Zenon
  <2>2. CASE close_stream_idle(id) /\ Hits(table, id) = {}
    BY <1>1, <2>2, Zenon DEF close_stream_idle, pulse_close
  <2>3. CASE close_stream_idle(id) /\ Hits(table, id) # {}
    <3>1. table' = close_index(table, FirstHit(table, id))
      BY <2>3, Zenon DEF close_stream_idle, pulse_close
    <3> QED
      BY <1>1, <2>3, <3>1, FirstHitActive, CloseIndex
  <2> QED
    BY <2>1, <2>2, <2>3, Zenon
<1> QED
  BY <1>2, <1>3, Zenon DEF SendInv, SendTypeOK, GoodSendTable, ReservationTracks

(* The two action properties, as predicates on one step.                   *)
RemovesHeld ==
    slot.pending /\ ~slot'.pending => OpenSlots(table') = OpenSlots(table) \ {held}

KeepsHeld ==
    slot.pending /\ slot'.pending =>
        /\ held' = held
        /\ held \in OpenSlots(table')
        /\ table'.slot[held] = table.slot[held]

(* Every step keeps the invariant and does what the properties say.        *)
LEMMA StepPreserves ==
    ASSUME SendInv, SendNext PROVE SendInv' /\ RemovesHeld /\ KeepsHeld
<1>1. PICK id \in SendId :
        \/ begin_send(id) \/ allocate_while_pending(id) \/ close_other(id)
        \/ finish_send(id) \/ allocate_stream_idle(id) \/ close_stream_idle(id)
  BY Zenon DEF SendNext
<1>2. CASE begin_send(id)
  BY <1>2, BeginStep, Zenon DEF RemovesHeld, KeepsHeld
<1>3. CASE allocate_while_pending(id)
  BY <1>3, AllocatePendingStep, Zenon DEF RemovesHeld, KeepsHeld
<1>4. CASE close_other(id)
  BY <1>4, CloseOtherStep, Zenon DEF RemovesHeld, KeepsHeld
<1>5. CASE finish_send(id)
  BY <1>5, FinishSendStep, Zenon DEF RemovesHeld, KeepsHeld
<1>6. CASE allocate_stream_idle(id) \/ close_stream_idle(id)
  BY <1>6, IdleStep, Zenon DEF RemovesHeld, KeepsHeld
<1> QED
  BY <1>1, <1>2, <1>3, <1>4, <1>5, <1>6, Zenon

(* Stuttering changes nothing the invariant or the properties look at.     *)
LEMMA StutterPreserves ==
    ASSUME SendInv, UNCHANGED sendVars PROVE SendInv' /\ RemovesHeld /\ KeepsHeld
<1>1. table' = table /\ slot' = slot /\ held' = held
  BY Zenon DEF sendVars
<1>2. SendInv'
  BY <1>1, Zenon DEF SendInv, SendTypeOK, ReservationTracks
<1>3. slot.pending => held \in OpenSlots(table)
  <2>1. SUFFICES ASSUME slot.pending PROVE held \in OpenSlots(table)
    OBVIOUS
  <2>2. /\ slot.index \in Slot /\ slot.index < table.count
        /\ table.order[slot.index] = held /\ table.count \in Nat
    BY <2>1 DEF SendInv, SendTypeOK, ReservationTracks
  <2>3. slot.index \in Active(table)
    BY <2>2 DEF Active, Slot
  <2> QED
    BY <2>2, <2>3, Zenon DEF OpenSlots
<1> QED
  BY <1>1, <1>2, <1>3, Zenon DEF RemovesHeld, KeepsHeld

(* The invariant holds of the tables the protocol may start with.          *)
LEMMA SendInitInv == SendInit => SendInv
<1> SUFFICES ASSUME SendInit PROVE SendInv
  OBVIOUS
<1>1. PICK order \in [Slot -> Slot], contexts \in [Slot -> Context],
           room \in 0 .. Capacity :
        \E used \in 0 .. room :
           table = [order |-> order, slot |-> contexts,
                    count |-> used, capacity |-> room]
  BY Zenon DEF SendInit
<1>2. PICK used \in 0 .. room :
        table = [order |-> order, slot |-> contexts, count |-> used, capacity |-> room]
  BY <1>1, Zenon
<1>3. OrderDistinct(table) /\ slot = None /\ held = NULL
  BY Zenon DEF SendInit
<1>4. used \in 0 .. Capacity /\ used <= room
  BY CapacityAssumption
<1>5. ~slot.pending /\ slot \in [pending : BOOLEAN, id : SendId, index : Slot]
  BY <1>3, SendConstants, CapacityAssumption DEF None, Slot
<1> QED
  BY <1>2, <1>3, <1>4, <1>5 DEF SendInv, SendTypeOK, ReservationTracks

----------------------------------------------------------------------------
(* The invariant of the protocol, for every capacity and set of ids.       *)
THEOREM SendInvariant == SendSpec => []SendInv
<1>1. SendInv /\ [SendNext]_sendVars => SendInv'
  BY StepPreserves, StutterPreserves, Zenon
<1> QED
  BY <1>1, SendInitInv, PTL DEF SendSpec

(* The prefix never outgrows the capacity and the cursor stays a position  *)
(* of the table (allocate_while_pending, close_other).                     *)
THEOREM SendTypeCorrect == SendSpec => []SendTypeOK
<1>1. SendInv => SendTypeOK
  BY Zenon DEF SendInv
<1> QED
  BY <1>1, SendInvariant, PTL

(* Through any number of swaps the cursor points at the context reserved   *)
(* by begin_send, under its id (close_other's cursor arithmetic).          *)
THEOREM ReservationTracked == SendSpec => []ReservationTracks
<1>1. SendInv => ReservationTracks
  BY Zenon DEF SendInv
<1> QED
  BY <1>1, SendInvariant, PTL

(* finish_send closes the reserved context and no other, duplicates of its *)
(* id included.                                                            *)
THEOREM FinishExact == SendSpec => FinishRemovesHeld
<1>1. SendInv /\ [SendNext]_sendVars => RemovesHeld
  BY StepPreserves, StutterPreserves, Zenon
<1>2. SendInv /\ [SendNext]_sendVars
      => [slot.pending /\ ~slot'.pending => OpenSlots(table') = OpenSlots(table) \ {held}]_sendVars
  BY <1>1, Zenon DEF RemovesHeld
<1> QED
  BY <1>2, SendInvariant, PTL DEF SendSpec, FinishRemovesHeld

(* Nothing recycles or rewrites the reserved context while its response is *)
(* in flight (allocate_while_pending, close_other).                        *)
THEOREM HeldStable == SendSpec => HeldUndisturbed
<1>1. SendInv /\ [SendNext]_sendVars
      => [slot.pending /\ slot'.pending =>
            /\ held' = held
            /\ held \in OpenSlots(table')
            /\ table'.slot[held] = table.slot[held]]_sendVars
  BY StepPreserves, StutterPreserves, Zenon DEF KeepsHeld
<1> QED
  BY <1>1, SendInvariant, PTL DEF SendSpec, HeldUndisturbed
=============================================================================
