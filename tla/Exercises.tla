----------------------------- MODULE Exercises ------------------------------
(* The exercises of weeks 2, 3, 6 and 9 together: a behaviour is one of the *)
(* programs picked at its start.  A variable that a program does not have   *)
(* keeps its value.                                                         *)
EXTENDS Integers, Sequences

CONSTANTS
    EchoLines, CommandLines,                \* TcpEcho, CommandServer
    Garbage, Cap, MaxLines,                 \* LineClient
    NumFields, Width,                       \* Drawing
    Peers, Server, Long, MaxQuestions, MaxFaults    \* UdpEcho

VARIABLES program, cut, client, stdin, asked, shown, server, toServer,
          toClient, overrun, ends, bounced, lost, copied

allVars == <<program, cut, client, stdin, asked, shown, server, toServer,
             toClient, overrun, ends, bounced, lost, copied>>

E == INSTANCE TcpEcho WITH Lines <- EchoLines
C == INSTANCE CommandServer WITH Lines <- CommandLines
D == INSTANCE Drawing
U == INSTANCE UdpEcho

ASSUME ExerciseAssumption ==
    /\ E!LineAssumption /\ C!CommandAssumption
    /\ D!DrawingAssumption /\ U!UdpAssumption

lineOnly == <<stdin, overrun>>
udpOnly == <<bounced, lost, copied>>

AnyInit ==
    \/ /\ program \in E!Programs \cup C!Programs /\ E!Init
       /\ ends = {} /\ bounced = {} /\ lost = 0 /\ copied = 0
    \/ /\ program \in D!Programs /\ D!Init
       /\ stdin = TRUE /\ overrun = FALSE /\ asked = <<>> /\ toClient = <<>>
       /\ bounced = {} /\ lost = 0 /\ copied = 0
    \/ /\ program \in U!Programs /\ U!Init
       /\ stdin = TRUE /\ overrun = FALSE /\ cut = FALSE /\ ends = {}

OfEcho(A) == program \in E!Programs /\ A /\ UNCHANGED <<ends, udpOnly>>
OfCommand(A) == program \in C!Programs /\ A /\ UNCHANGED <<ends, udpOnly>>
OfDrawing(A) ==
    program \in D!Programs /\ A /\ UNCHANGED <<lineOnly, asked, toClient, udpOnly>>
OfUdp(A) == program \in U!Programs /\ A /\ UNCHANGED <<lineOnly, cut, ends>>

AnyNext ==
    \/ OfEcho(E!Next) \/ OfCommand(C!Next)
    \/ OfDrawing(D!Next) \/ OfUdp(U!Next)

(* The programs run, and what is on its way arrives; nobody has to type,   *)
(* nothing has to be cut, lost, copied or killed.                          *)
AnySpec ==
    /\ AnyInit /\ [][AnyNext]_allVars
    /\ WF_allVars(OfEcho(~overrun /\ E!ServerRuns)
                  \/ OfCommand(~overrun /\ C!ServerRuns))
    /\ WF_allVars(OfEcho(~overrun /\ E!ClientRuns)
                  \/ OfCommand(~overrun /\ C!ClientRuns))
    /\ WF_allVars(OfDrawing(D!ServerRuns))
    /\ WF_allVars(OfDrawing(D!Send \/ D!Close))
    /\ WF_allVars(OfUdp(U!ServerRuns))
    /\ \A p \in Peers : WF_allVars(OfUdp(U!ClientRuns(p)))

-----------------------------------------------------------------------------
(* Types, program by program.                                              *)
TypeOK ==
    /\ program \in E!Programs \cup C!Programs => E!LineTypeOK
    /\ program \in D!Programs => D!DrawingTypeOK
    /\ program \in U!Programs => U!UdpTypeOK

(* TcpEcho!EchoIntegrity: the echo is what was written, in order.          *)
EchoIntegrity == program \in E!Programs => E!EchoIntegrity

(* LineClient!InStep: answers match questions while reads are not cut.     *)
InStep ==
    /\ program \in E!Programs => E!InStep(asked)
    /\ program \in C!Programs => C!InStep(C!Expected)

(* LineClient!TerminatorInside: buf[n] = 0 stays inside buf.               *)
TerminatorInside == program \in E!Programs \cup C!Programs => E!TerminatorInside

(* Drawing!FixedExact: the fixed message is shown as sent.                 *)
FixedExact == program \in D!Programs => D!FixedExact

(* Drawing!LinesKept: a line parsed from one read stays in the message.    *)
LinesKept == program \in D!Programs => D!LinesKept

(* Drawing!TextParsed: an uncut text message is parsed.                    *)
TextParsed == program \in D!Programs => D!TextParsed

(* UdpEcho!AnswersQuestion: a datagram answers the question just asked.    *)
AnswersQuestion == program \in U!Programs => U!AnswersQuestion

(* UdpEcho!ServerOutlives: what ends the server.                           *)
ServerOutlives == program \in U!Programs => U!ServerOutlives

(* Nobody waits for good.  The exceptions are in the code: a client in     *)
(* Rust whose input ended waits for the answer to nothing, the server of   *)
(* week3_Prac does not answer what it does not know, no UDP program times  *)
(* out (a lost datagram, a server that ended).                             *)
Waits(x) ==
    \/ /\ x = "line" /\ ~overrun
       /\ \/ program \in E!Programs /\ client = "waiting" /\ ~E!Stuck
          \/ program \in C!Programs /\ client = "waiting" /\ ~C!Stuck
    \/ x = "drawing" /\ program \in D!Programs /\ server = "reading"
    \/ /\ x \in Peers /\ program \in U!Programs
       /\ client[x] = "waiting" /\ server = "reading" /\ lost = 0

NobodyWaits == \A x \in Peers \cup {"line", "drawing"} : Waits(x) ~> ~Waits(x)
=============================================================================
