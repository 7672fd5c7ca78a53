--------------------------- MODULE VideoUse_proof ---------------------------
(***************************************************************************)
(* Theorems about VideoUse, for any number of calls, cameras and frames:   *)
(* the types, no stray connection, what the process may die of, the        *)
(* configuration in front of every key frame, that a picture goes to its   *)
(* own peer, and that the video path implements FrameChannel.              *)
(*                                                                         *)
(* Each invariant that is not inductive is proved within one that is:      *)
(* NoStrayConnection in SocketInv (one attempt at a time, and what each of *)
(* its steps finds in the field), DiesOnlyExposed in CameraInv (a released *)
(* camera keeps its callback only if it was recording),                    *)
(* KeyFramesCarryConfig and the refinement in FramesInv (what waits for a  *)
(* HandlerThread is in order, later than what it wrote, and never bare),   *)
(* OwnFramesOnly in OwnInv (a handler whose call is over has at most the   *)
(* frame in its hand left, and the connection is the present call's).      *)
(***************************************************************************)
EXTENDS VideoUse, SequenceTheorems, TLAPS

\* What a SocketThread that nobody overtook finds in the field, step by step.
SocketInv ==
  overtaken = {} =>
    /\ \A i, j \in InFlight : i = j
    /\ recording \/ InFlight = {}
    /\ \A i \in Call :
         /\ attempt[i] \in {"closeOld", "forget", "check", "getOut", "getIn"}
              => mSocket # None
         /\ attempt[i] = "dial" => mSocket = None
         /\ attempt[i] = "forget" => open = {}
    /\ open \subseteq {mSocket}
    /\ recording \/ open = {}

CameraInv ==
  /\ Exposed # {} => unshielded
  /\ Filming => recording
  /\ \A k \in Camera : ~camera[k].opened => ~camera[k].callback
  /\ mCamera # None => camera[mCamera].opened /\ surface /\ ~destroyed
  /\ mMediaCodec \/ destroyed

\* The frames q that wait for a handler: in order, after low, up to high.
InOrder(q, low, high) ==
  /\ \A m \in 1 .. Len(q) : low < q[m].no /\ q[m].no <= high /\ q[m].kind # "bare"
  /\ \A m, n \in 1 .. Len(q) : m < n => q[m].no < q[n].no

FramesInv ==
  /\ configured => mPpsSps
  /\ \A h \in Call :
       /\ InOrder(handler[h].queue, last[h], shot)
       /\ InOrder(handler[h].queue, handler[h].hand.no, shot)
       /\ last[h] <= shot /\ handler[h].hand.no <= shot
       /\ handler[h].hand # NoFrame =>
            last[h] < handler[h].hand.no /\ handler[h].hand.kind # "bare"
  /\ KeyFramesCarryConfig
\* Is the handler of call i done with, its call followed by another or stopped?
Aside(i) == ~(i = current /\ (recording \/ destroyed))

\* A handler that is done with has nothing left but the frame in its hand, and only
\* that one can go astray: while its call is the present one, the connection is its
\* own or one of a call that was not closed.
OwnCall(i) ==
  /\ Aside(i) => ~handler[i].run /\ handler[i].queue = <<>>
  /\ \A a, b \in Astray(i) : a = b
  /\ Astray(i) # {} => i # current /\ attempt[i] # "unborn" /\ handler[i].hand = NoFrame

OwnPart ==
  /\ InFlight \subseteq {current}
  /\ recording \/ mSocket = None
  /\ mSocket \in {None, current} \cup unclosed
  /\ \A i \in Call \ unclosed : OwnCall(i)

OwnInv ==
  /\ current # None => attempt[current] # "unborn"
  /\ \A i \in Call : attempt[i] = "unborn" =>
       ~handler[i].run /\ handler[i].queue = <<>> /\ handler[i].hand = NoFrame
  /\ recording => current # None
  /\ overtaken = {} => OwnPart
-----------------------------------------------------------------------------
\* Types.

LEMMA HandlerFields ==
  ASSUME TcpVideoTypeOK, NEW h \in Call
  PROVE  /\ handler[h] \in Handler /\ handler[h].run \in BOOLEAN
         /\ handler[h].hand \in Frame /\ handler[h].queue \in Seq(Frame)
BY DEF TcpVideoTypeOK, Handler

\* What Framed() sends is a sequence of frames, numbered on from shot.
LEMMA FramedType ==
  ASSUME shot \in Nat, NEW outs \in Outputs
  PROVE  /\ Len(outs) \in Nat /\ outs \in Seq(Kind)
         /\ Framed(outs) \in Seq(Frame) /\ Len(Framed(outs)) = Len(outs)
         /\ \A n \in 1 .. Len(outs) : Framed(outs)[n].no = shot + n
<1>1. outs \in Seq(Kind)
  <2>1. outs \in {<<>>, <<"key">>, <<"delta">>, <<"config">>, <<"config", "key">>}
    BY DEF Outputs
  <2>2. /\ <<>> \in Seq(Kind) /\ <<"key">> \in Seq(Kind) /\ <<"delta">> \in Seq(Kind)
        /\ <<"config">> \in Seq(Kind) /\ <<"config", "key">> \in Seq(Kind)
    BY DEF Kind
  <2> QED
    BY <2>1, <2>2
<1>2. /\ Len(outs) \in Nat /\ DOMAIN outs = 1 .. Len(outs)
      /\ \A n \in 1 .. Len(outs) : outs[n] \in Kind
  BY <1>1, LenProperties, ElementOfSeq
<1>3. Framed(outs) \in [1 .. Len(outs) -> Frame]
  BY <1>2 DEF Framed, Frame, Kind
<1>4. Framed(outs) \in Seq(Frame)
  BY <1>2, <1>3, SeqDef
<1>5. Len(Framed(outs)) = Len(outs)
  BY <1>2, <1>3, <1>4, LenProperties
<1> QED
  BY <1>1, <1>2, <1>4, <1>5 DEF Framed

LEMMA SendType ==
  ASSUME TcpVideoTypeOK, NEW fs \in Seq(Frame), sendImage(fs)
  PROVE  handler' \in [Call -> Handler]
<1>1. CASE current # None /\ handler[current].run
  <2>1. current \in Call
    BY <1>1 DEF TcpVideoTypeOK, CallRef
  <2>2. handler[current].queue \o fs \in Seq(Frame)
    BY <2>1, HandlerFields, ConcatProperties
  <2> QED
    BY <1>1, <2>1, <2>2 DEF sendImage, Enqueued, TcpVideoTypeOK, Handler
<1>2. CASE ~(current # None /\ handler[current].run)
  BY <1>2 DEF sendImage, TcpVideoTypeOK
<1> QED
  BY <1>1, <1>2

LEMMA CloseType ==
  ASSUME TcpVideoTypeOK, close
  PROVE  TcpVideoTypeOK'
<1>1. handler' \in [Call -> Handler]
  <2>1. CASE current = None
    BY <2>1 DEF close, TcpVideoTypeOK
  <2>2. CASE current # None
    <3>1. <<>> \in Seq(Frame)
      OBVIOUS
    <3> QED
      BY <2>2, <3>1 DEF close, Quit, TcpVideoTypeOK, Handler, CallRef
  <2> QED
    BY <2>1, <2>2
<1> QED
  BY <1>1 DEF close, TcpVideoTypeOK, CallRef

LEMMA SocketThreadType ==
  ASSUME TcpVideoTypeOK, NEW i \in Call, SocketThread(i)
  PROVE  TcpVideoTypeOK'
<1>1. attempt' \in [Call -> AttemptPC]
  BY DEF TcpVideoTypeOK, SocketThread, Start, CloseOld, ForgetOld, Dial, Check,
         GetOut, GetIn, Goto, AttemptPC
<1>2. alive' \in BOOLEAN /\ open' \subseteq Call
  BY DEF TcpVideoTypeOK, SocketThread, Start, CloseOld, ForgetOld, Dial, Check,
         GetOut, GetIn, Dies
<1>3. mSocket' \in CallRef /\ mOutputStream' \in CallRef
  BY DEF TcpVideoTypeOK, SocketThread, Start, CloseOld, ForgetOld, Dial, Check,
         GetOut, GetIn, CallRef
<1> QED
  BY <1>1, <1>2, <1>3 DEF TcpVideoTypeOK, SocketThread

LEMMA HandlerThreadType ==
  ASSUME TcpVideoTypeOK, NEW h \in Call, HandlerThread(h)
  PROVE  TcpVideoTypeOK'
<1>0. handler[h] \in Handler /\ handler[h].hand \in Frame /\ handler[h].queue \in Seq(Frame)
  BY HandlerFields
<1>1. CASE TakeMessage(h)
  <2>1. Head(handler[h].queue) \in Frame /\ Tail(handler[h].queue) \in Seq(Frame)
    BY <1>0, <1>1, HeadTailProperties DEF TakeMessage
  <2>2. NoFrame \in Frame
    BY DEF NoFrame, Frame, Kind
  <2>3. handler' \in [Call -> Handler]
    BY <1>1, <2>1, <2>2 DEF TakeMessage, TcpVideoTypeOK, Handler
  <2> QED
    BY <1>1, <2>3 DEF TakeMessage, HandlerThread, TcpVideoTypeOK
<1>2. CASE WriteFrame(h)
  <2>1. NoFrame \in Frame
    BY DEF NoFrame, Frame, Kind
  <2>2. handler' \in [Call -> Handler]
    BY <1>2, <2>1 DEF WriteFrame, TcpVideoTypeOK, Handler
  <2>3. wire' \in [Call -> Seq(Written)]
    <3>1. [call |-> h, no |-> handler[h].hand.no, kind |-> handler[h].hand.kind] \in Written
      BY <1>0 DEF Frame, Written
    <3>2. CASE mOutputStream \in open
      <4>1. mOutputStream \in Call /\ wire[mOutputStream] \in Seq(Written)
        BY <3>2 DEF TcpVideoTypeOK
      <4>2. Append(wire[mOutputStream], [call |-> h, no |-> handler[h].hand.no,
                                         kind |-> handler[h].hand.kind]) \in Seq(Written)
        BY <3>1, <4>1, AppendProperties
      <4> QED
        BY <1>2, <3>2, <4>1, <4>2 DEF WriteFrame, TcpVideoTypeOK
    <3>3. CASE mOutputStream \notin open
      BY <1>2, <3>3 DEF WriteFrame, TcpVideoTypeOK
    <3> QED
      BY <3>2, <3>3
  <2> QED
    BY <1>2, <2>2, <2>3 DEF HandlerThread, TcpVideoTypeOK
<1> QED
  BY <1>1, <1>2 DEF HandlerThread

LEMMA TypeInit == Init => TypeOK
<1> SUFFICES ASSUME Init PROVE TypeOK
  OBVIOUS
<1>1. TcpVideoTypeOK
  <2>1. NoFrame \in Frame
    BY DEF NoFrame, Frame, Kind
  <2>2. <<>> \in Seq(Frame) /\ <<>> \in Seq(Written)
    OBVIOUS
  <2> QED
    BY <2>1, <2>2 DEF Init, TcpVideoInit, TcpVideoTypeOK, CallRef, AttemptPC, Handler
<1>2. ViewTypeOK
  <2>1. camera \in [Camera -> CameraRec]
    BY DEF Init, ViewInit, CameraRec
  <2>2. looper \in Seq(Camera)
    BY DEF Init, ViewInit
  <2> QED
    BY <2>1, <2>2 DEF Init, ViewInit, ViewTypeOK
<1> QED
  BY <1>1, <1>2 DEF Init, TypeOK

LEMMA StartType ==
  ASSUME TypeOK, StartVideo, isStart' \in BOOLEAN
  PROVE  TypeOK'
<1>1. PICK i \in Call : connect(i)
  BY DEF StartVideo
<1>2. TcpVideoTypeOK'
  BY <1>1 DEF TypeOK, connect, TcpVideoTypeOK, AttemptPC, CallRef, Handler
<1>3. camera' \in [Camera -> CameraRec]
  BY DEF TypeOK, StartVideo, startRecod, ViewTypeOK, CameraRec
<1>4. overtaken' \subseteq Call /\ unclosed' \subseteq CallRef
  BY DEF TypeOK, StartVideo, InFlight, TcpVideoTypeOK
<1> QED
  BY <1>2, <1>3, <1>4 DEF TypeOK, StartVideo, ViewTypeOK

LEMMA StopType ==
  ASSUME TypeOK, StopVideo
  PROVE  /\ TcpVideoTypeOK' /\ camera' \in [Camera -> CameraRec]
         /\ overtaken' \subseteq Call /\ recording' \in BOOLEAN
<1>1. TcpVideoTypeOK'
  BY CloseType DEF TypeOK, StopVideo, stopRecord
<1>2. camera' \in [Camera -> CameraRec]
  BY DEF TypeOK, StopVideo, stopRecord, Silent, ViewTypeOK, CameraRec
<1> QED
  BY <1>1, <1>2 DEF StopVideo, InFlight, TypeOK

LEMMA EncodeType ==
  ASSUME TypeOK, mCamera # None, NEW outs \in Outputs, Encode(outs)
  PROVE  /\ handler' \in [Call -> Handler] /\ camera' \in [Camera -> CameraRec]
         /\ configured' \in BOOLEAN /\ mPpsSps' \in BOOLEAN /\ shot' \in Nat
         /\ alive' \in BOOLEAN /\ open' \subseteq Call
<1>1. Framed(outs) \in Seq(Frame) /\ Len(outs) \in Nat
  BY FramedType DEF TypeOK, ViewTypeOK
<1>2. handler' \in [Call -> Handler]
  BY <1>1, SendType DEF TypeOK, Encode
<1>3. camera' \in [Camera -> CameraRec]
  <2>1. mCamera \in Camera /\ camera[mCamera] \in CameraRec
    BY DEF TypeOK, ViewTypeOK
  <2>2. [camera[mCamera] EXCEPT !.buffers = @ + 1] \in CameraRec
    BY <2>1 DEF CameraRec
  <2> QED
    BY <2>1, <2>2 DEF TypeOK, ViewTypeOK, Encode, Refilled
<1>4. configured' \in BOOLEAN /\ mPpsSps' \in BOOLEAN
  BY DEF TypeOK, Encode, Remembered, ViewTypeOK
<1> QED
  BY <1>1, <1>2, <1>3, <1>4 DEF Encode, TypeOK, ViewTypeOK, TcpVideoTypeOK

LEMMA PreviewType ==
  ASSUME TypeOK, onPreviewFrame
  PROVE  TcpVideoTypeOK' /\ ViewTypeOK'
<1>0. looper' \in Seq(Camera)
  BY HeadTailProperties DEF TypeOK, ViewTypeOK, onPreviewFrame
<1>1. CASE UNCHANGED <<alive, open, handler, camera, configured, mPpsSps, shot>>
  BY <1>0, <1>1 DEF TypeOK, ViewTypeOK, TcpVideoTypeOK, onPreviewFrame
<1>2. CASE mCamera # None /\ \E outs \in Outputs : Encode(outs)
  BY <1>0, <1>2, EncodeType DEF TypeOK, ViewTypeOK, TcpVideoTypeOK, onPreviewFrame
<1>3. CASE Dies /\ UNCHANGED <<handler, camera, configured, mPpsSps, shot>>
  BY <1>0, <1>3 DEF TypeOK, ViewTypeOK, TcpVideoTypeOK, onPreviewFrame, Dies
<1> QED
  BY <1>1, <1>2, <1>3 DEF onPreviewFrame

LEMMA TypeStep == TypeOK /\ [Next]_vars => TypeOK'
<1> SUFFICES ASSUME TypeOK, [Next]_vars PROVE TypeOK'
  OBVIOUS
<1>1. CASE Answered
  BY <1>1, StartType DEF Answered
<1>2. CASE AcceptPressed
  BY <1>2, StartType DEF AcceptPressed, TypeOK
<1>3. CASE HungUp
  BY <1>3, StopType DEF HungUp, TypeOK, ViewTypeOK
<1>4. CASE Failed
  BY <1>4, StopType DEF Failed, TypeOK, ViewTypeOK
<1>5. CASE SurfaceCreated
  <2>1. ViewTypeOK'
    BY <1>5 DEF SurfaceCreated, createCamera, TypeOK, ViewTypeOK, CameraRec
  <2> QED
    BY <1>5, <2>1 DEF SurfaceCreated, TypeOK, TcpVideoTypeOK, tcpVideoVars, histVars
<1>6. CASE SurfaceDestroyed
  <2>1. ViewTypeOK'
    BY <1>6 DEF SurfaceDestroyed, destroyCamera, TypeOK, ViewTypeOK, CameraRec
  <2> QED
    BY <1>6, <2>1 DEF SurfaceDestroyed, TypeOK, TcpVideoTypeOK, tcpVideoVars
<1>7. CASE Destroyed
  <2>1. ViewTypeOK'
    BY <1>7 DEF Destroyed, Silent, TypeOK, ViewTypeOK, CameraRec
  <2>2. TcpVideoTypeOK'
    <3>1. CASE close
      BY <3>1, CloseType DEF TypeOK
    <3>2. CASE UNCHANGED tcpVideoVars
      BY <3>2 DEF TypeOK, TcpVideoTypeOK, tcpVideoVars
    <3> QED
      BY <1>7, <3>1, <3>2 DEF Destroyed
  <2> QED
    BY <1>7, <2>1, <2>2 DEF Destroyed, TypeOK, InFlight
<1>8. CASE alive /\ Filmed
  <2>1. CASE Picture
    <3>1. mCamera \in Camera /\ looper \in Seq(Camera)
      BY <2>1 DEF Picture, Filming, TypeOK, ViewTypeOK
    <3>2. looper' \in Seq(Camera)
      BY <2>1, <3>1, AppendProperties DEF Picture
    <3>3. camera' \in [Camera -> CameraRec]
      <4>1. camera[mCamera] \in CameraRec /\ camera[mCamera].buffers > 0
        BY <2>1, <3>1 DEF Picture, HasBuffer, TypeOK, ViewTypeOK
      <4>2. [camera[mCamera] EXCEPT !.buffers = @ - 1] \in CameraRec
        BY <4>1 DEF CameraRec
      <4> QED
        BY <2>1, <3>1, <4>2 DEF Picture, TypeOK, ViewTypeOK
    <3> QED
      BY <1>8, <2>1, <3>2, <3>3 DEF Picture, Filmed, TypeOK, ViewTypeOK, TcpVideoTypeOK,
         tcpVideoVars, appVars, histVars
  <2>2. CASE onPreviewFrame
    BY <1>8, <2>2, PreviewType DEF Filmed, TypeOK, appVars, histVars
  <2> QED
    BY <1>8, <2>1, <2>2 DEF Filmed
<1>9. ASSUME NEW i \in Call, VideoThread(i) PROVE TypeOK'
  BY <1>9, SocketThreadType DEF VideoThread, TypeOK, ViewTypeOK, viewVars, appVars, histVars
<1>10. ASSUME NEW h \in Call, VideoHandler(h) PROVE TypeOK'
  <2>1. TcpVideoTypeOK' /\ handler[h].hand.no \in Nat
    BY <1>10, HandlerThreadType, HandlerFields DEF VideoHandler, TypeOK, Frame
  <2> QED
    BY <1>10, <2>1 DEF VideoHandler, TypeOK, ViewTypeOK, viewVars, appVars
<1>11. CASE UNCHANGED vars
  BY <1>11 DEF vars, tcpVideoVars, viewVars, appVars, histVars, TypeOK, TcpVideoTypeOK,
               ViewTypeOK
<1> QED
  BY <1>1, <1>2, <1>3, <1>4, <1>5, <1>6, <1>7, <1>8, <1>9, <1>10, <1>11 DEF Next

\* Every field keeps its type, whatever the application, the platform and the peers do.
THEOREM VideoTypeCorrect == Spec => []TypeOK
  BY TypeInit, TypeStep, PTL DEF Spec
-----------------------------------------------------------------------------
\* No stray connection.

LEMMA SocketStop ==
  ASSUME TypeOK, SocketInv, close, overtaken' = overtaken \cup InFlight
  PROVE  SocketInv'
<1> SUFFICES ASSUME overtaken' = {} PROVE SocketInv'
  BY DEF SocketInv
<1>1. overtaken = {} /\ InFlight = {}
  OBVIOUS
<1>2. InFlight' = {} /\ \A i \in Call : attempt'[i] \in {"unborn", "done"}
  BY <1>1 DEF close, InFlight
<1>3. open' = {} /\ mSocket' = None
  BY <1>1 DEF SocketInv, close, ToClose
<1> QED
  BY <1>2, <1>3 DEF SocketInv

LEMMA SocketStart ==
  ASSUME TypeOK, SocketInv, StartVideo
  PROVE  SocketInv'
<1> SUFFICES ASSUME overtaken' = {} PROVE SocketInv'
  BY DEF SocketInv
<1>1. overtaken = {} /\ InFlight = {}
  BY DEF StartVideo
<1>2. PICK i \in Call : connect(i)
  BY DEF StartVideo
<1>3. \A j \in Call : attempt'[j] \in {"unborn", "done"} \/ (j = i /\ attempt'[j] = "start")
  BY <1>1, <1>2 DEF connect, InFlight, TypeOK, TcpVideoTypeOK
<1>4. \A j \in InFlight' : j = i
  BY <1>3 DEF InFlight
<1>5. open' \subseteq {mSocket'} /\ recording'
  BY <1>1, <1>2 DEF SocketInv, connect, StartVideo
<1> QED
  BY <1>3, <1>4, <1>5 DEF SocketInv

LEMMA SocketStep ==
  ASSUME TypeOK, SocketInv, NEW i \in Call, VideoThread(i)
  PROVE  SocketInv' /\ (overtaken = {} => alive')
<1> SUFFICES ASSUME overtaken = {} PROVE SocketInv' /\ alive'
  BY DEF SocketInv, VideoThread, histVars
<1>0. /\ SocketThread(i) /\ alive /\ i \in InFlight /\ attempt \in [Call -> AttemptPC]
      /\ overtaken' = overtaken /\ recording' = recording
  BY DEF VideoThread, SocketThread, Start, CloseOld, ForgetOld, Dial, Check, GetOut, GetIn,
         InFlight, histVars, TypeOK, TcpVideoTypeOK
<1>1. \A j \in Call \ {i} : attempt[j] \in {"unborn", "done"}
  BY <1>0 DEF SocketInv, InFlight
<1>2. recording
  BY <1>0 DEF SocketInv
<1>3. \A j \in Call \ {i} : attempt'[j] = attempt[j]
  BY <1>0 DEF SocketThread, Start, CloseOld, ForgetOld, Dial, Check, GetOut, GetIn, Goto
<1>4. \A j \in InFlight' : j = i
  BY <1>1, <1>3 DEF InFlight
\* What is left to show, about thread i alone.
<1>5. ASSUME alive', open' \subseteq {mSocket'},
             attempt'[i] \in {"closeOld", "forget", "check", "getOut", "getIn"}
               => mSocket' # None,
             attempt'[i] = "dial" => mSocket' = None,
             attempt'[i] = "forget" => open' = {}
      PROVE  SocketInv' /\ alive'
  BY <1>0, <1>1, <1>2, <1>3, <1>4, <1>5 DEF SocketInv
<1>6. open \subseteq {mSocket} /\ open \subseteq Call /\ None \notin Call
  BY DEF SocketInv, TypeOK, TcpVideoTypeOK, None, Call
<1>7. /\ attempt[i] \in {"closeOld", "forget", "check", "getOut", "getIn"} => mSocket # None
      /\ attempt[i] = "dial" => mSocket = None
      /\ attempt[i] = "forget" => open = {}
  BY DEF SocketInv
<1>8. CASE Start(i)
  BY <1>0, <1>5, <1>6, <1>8 DEF Start, Goto
<1>9. CASE CloseOld(i)
  BY <1>0, <1>5, <1>6, <1>7, <1>9 DEF CloseOld, Goto
<1>10. CASE ForgetOld(i)
  BY <1>0, <1>5, <1>6, <1>7, <1>10 DEF ForgetOld, Goto
<1>11. CASE Dial(i)
  BY <1>0, <1>5, <1>6, <1>7, <1>11 DEF Dial, Goto
<1>12. CASE Check(i)
  BY <1>0, <1>5, <1>6, <1>7, <1>12 DEF Check, Goto
<1>13. CASE GetOut(i)
  BY <1>0, <1>5, <1>6, <1>7, <1>13 DEF GetOut, Goto
<1>14. CASE GetIn(i)
  BY <1>0, <1>5, <1>6, <1>7, <1>14 DEF GetIn, Goto
<1> QED
  BY <1>0, <1>8, <1>9, <1>10, <1>11, <1>12, <1>13, <1>14 DEF SocketThread

\* A step that leaves the socket's fields alone, or closes everything by dying.
LEMMA SocketSame ==
  ASSUME SocketInv, open' \in {open, {}},
         UNCHANGED <<attempt, mSocket, overtaken, recording>>
  PROVE  SocketInv'
BY DEF SocketInv, InFlight

LEMMA SocketInvStep == TypeOK /\ SocketInv /\ [Next]_vars => SocketInv'
<1> SUFFICES ASSUME TypeOK, SocketInv, [Next]_vars PROVE SocketInv'
  OBVIOUS
<1>1. CASE Answered \/ AcceptPressed
  BY <1>1, SocketStart DEF Answered, AcceptPressed
<1>2. CASE HungUp \/ Failed
  BY <1>2, SocketStop DEF HungUp, Failed, StopVideo, stopRecord
<1>3. CASE SurfaceCreated \/ SurfaceDestroyed
  BY <1>3, SocketSame DEF SurfaceCreated, SurfaceDestroyed, tcpVideoVars, histVars
<1>4. CASE Destroyed
  <2>1. CASE close
    BY <1>4, <2>1, SocketStop DEF Destroyed
  <2>2. CASE UNCHANGED tcpVideoVars /\ ~isConnect
    <3> SUFFICES ASSUME overtaken' = {} PROVE SocketInv'
      BY DEF SocketInv
    <3>1. overtaken = {} /\ InFlight = {}
      BY <1>4 DEF Destroyed
    <3>2. open = {}
      BY <2>2, <3>1 DEF SocketInv, isConnect, TypeOK, TcpVideoTypeOK, Call, None
    <3> QED
      BY <1>4, <2>2, <3>1, <3>2 DEF SocketInv, InFlight, tcpVideoVars
  <2> QED
    BY <1>4, <2>1, <2>2 DEF Destroyed
<1>5. CASE alive /\ Filmed
  BY <1>5, SocketSame DEF Filmed, Picture, onPreviewFrame, Encode, Dies, tcpVideoVars, histVars
<1>6. ASSUME NEW i \in Call, VideoThread(i) PROVE SocketInv'
  BY <1>6, SocketStep
<1>7. ASSUME NEW h \in Call, VideoHandler(h) PROVE SocketInv'
  BY <1>7, SocketSame DEF VideoHandler, HandlerThread
<1>8. CASE UNCHANGED vars
  BY <1>8, SocketSame DEF vars, tcpVideoVars, histVars
<1> QED
  BY <1>1, <1>2, <1>3, <1>4, <1>5, <1>6, <1>7, <1>8 DEF Next

LEMMA SocketInvInit == Init => SocketInv
BY DEF Init, TcpVideoInit, SocketInv, InFlight

\* As long as nothing overtakes a dialling, no video connection is forgotten and none
\* stays up after the stop.
THEOREM NoStrayVideo == Spec => []NoStrayConnection
<1>1. TypeOK /\ SocketInv => NoStrayConnection
  BY DEF SocketInv, NoStrayConnection
<1> QED
  BY <1>1, TypeInit, TypeStep, SocketInvInit, SocketInvStep, PTL DEF Spec
-----------------------------------------------------------------------------
\* What the process dies of.

LEMMA CameraSame ==
  ASSUME CameraInv,
         UNCHANGED <<mCamera, camera, mMediaCodec, surface, destroyed, recording, unshielded>>
  PROVE  CameraInv'
BY DEF CameraInv, Exposed, Filming

LEMMA CameraStart ==
  ASSUME TypeOK, CameraInv, StartVideo
  PROVE  CameraInv'
<1>1. CASE mCamera = None
  BY <1>1 DEF StartVideo, startRecod, CameraInv, Exposed, Filming
<1>2. CASE mCamera # None
  <2>1. mCamera \in Camera
    BY <1>2 DEF TypeOK, ViewTypeOK
  <2>2. \A k \in Camera \ {mCamera} : camera'[k] = camera[k]
    BY <1>2 DEF StartVideo, startRecod, TypeOK, ViewTypeOK
  <2>3. camera'[mCamera].opened
    BY <1>2, <2>1 DEF StartVideo, startRecod, CameraInv, TypeOK, ViewTypeOK, CameraRec
  <2> QED
    BY <1>2, <2>1, <2>2, <2>3 DEF StartVideo, CameraInv, Exposed, Filming
<1> QED
  BY <1>1, <1>2

LEMMA CameraStop ==
  ASSUME TypeOK, CameraInv, StopVideo,
         UNCHANGED <<mCamera, mMediaCodec, surface, destroyed, unshielded>>
  PROVE  CameraInv'
<1>1. CASE mCamera = None
  BY <1>1 DEF StopVideo, stopRecord, CameraInv, Exposed, Filming
<1>2. CASE mCamera # None
  <2>1. mCamera \in Camera
    BY <1>2 DEF TypeOK, ViewTypeOK
  <2>2. \A k \in Camera \ {mCamera} : camera'[k] = camera[k]
    BY <1>2 DEF StopVideo, stopRecord, TypeOK, ViewTypeOK
  <2>3. camera'[mCamera].opened /\ ~camera'[mCamera].callback
    BY <1>2, <2>1 DEF StopVideo, stopRecord, Silent, CameraInv, TypeOK, ViewTypeOK, CameraRec
  <2> QED
    BY <1>2, <2>1, <2>2, <2>3 DEF StopVideo, CameraInv, Exposed, Filming
<1> QED
  BY <1>1, <1>2

LEMMA CameraCreated ==
  ASSUME TypeOK, CameraInv, SurfaceCreated
  PROVE  CameraInv'
<1>1. mCamera = None /\ ~destroyed
  BY DEF SurfaceCreated, CameraInv, InUse
<1>2. PICK k \in Camera : createCamera(k)
  BY DEF SurfaceCreated
<1>3. \A j \in Camera : /\ camera'[j].callback = camera[j].callback
                        /\ camera'[j].opened = (camera[j].opened \/ j = k)
  BY <1>2 DEF createCamera, TypeOK, ViewTypeOK, CameraRec
<1>4. ~camera[k].callback /\ mCamera' \in {k, None} /\ None \notin Camera
  BY <1>2 DEF createCamera, CameraInv, Camera, None
<1> QED
  BY <1>1, <1>2, <1>3, <1>4 DEF SurfaceCreated, CameraInv, Exposed, Filming, histVars

\* A camera that is let go keeps its callback only if it was recording.
LEMMA CameraReleased ==
  ASSUME TypeOK, CameraInv, SurfaceDestroyed \/ Destroyed
  PROVE  CameraInv'
<1>1. /\ mCamera' = None /\ None \notin Camera
      /\ mMediaCodec' \/ destroyed'
      /\ unshielded => unshielded'
  <2>1. None \notin Camera
    BY DEF Camera, None
  <2>2. CASE SurfaceDestroyed
    BY <2>1, <2>2 DEF SurfaceDestroyed, destroyCamera, CameraInv
  <2>3. CASE Destroyed
    BY <2>1, <2>3 DEF Destroyed
  <2> QED
    BY <2>2, <2>3
<1>2. \A k \in Camera : k # mCamera => camera'[k] = camera[k]
  BY DEF SurfaceDestroyed, Destroyed, destroyCamera, TypeOK, ViewTypeOK
<1>3. mCamera # None => /\ mCamera \in Camera /\ camera[mCamera] \in CameraRec
                        /\ camera[mCamera].opened
                        /\ camera[mCamera].callback => recording
  BY DEF CameraInv, TypeOK, ViewTypeOK, Filming
<1>4. mCamera # None =>
        camera'[mCamera].opened /\ (camera'[mCamera].callback => unshielded')
  <2> SUFFICES ASSUME mCamera # None
               PROVE  camera'[mCamera].opened /\ (camera'[mCamera].callback => unshielded')
    OBVIOUS
  <2>1. CASE SurfaceDestroyed
    BY <1>3, <2>1 DEF SurfaceDestroyed, destroyCamera, TypeOK, ViewTypeOK, CameraRec
  <2>2. CASE Destroyed /\ isStart
    BY <1>3, <2>2 DEF Destroyed, Silent, TypeOK, ViewTypeOK, CameraRec
  <2>3. CASE Destroyed /\ ~isStart
    BY <1>3, <2>3 DEF Destroyed, TypeOK, ViewTypeOK, CameraRec
  <2> QED
    BY <2>1, <2>2, <2>3
<1>5. \A k \in Camera : k # mCamera /\ camera[k].callback => unshielded
  BY DEF CameraInv, Exposed
<1>6. \A k \in Camera : camera'[k].callback => unshielded' /\ camera'[k].opened
  BY <1>1, <1>2, <1>3, <1>4, <1>5 DEF CameraInv
<1> QED
  BY <1>1, <1>6 DEF CameraInv, Exposed, Filming

LEMMA CameraPreview ==
  ASSUME TypeOK, CameraInv, Filmed
  PROVE  CameraInv' /\ (alive => alive' \/ unshielded)
<1>1. UNCHANGED <<mCamera, mMediaCodec, surface, destroyed, recording, unshielded>>
  BY DEF Filmed, Picture, onPreviewFrame, appVars, histVars
<1>2. \A k \in Camera : /\ camera'[k].callback = camera[k].callback
                        /\ camera'[k].opened = camera[k].opened
  <2>1. CASE UNCHANGED camera
    BY <2>1
  <2>2. ASSUME mCamera \in Camera, NEW r \in Nat,
               camera' = [camera EXCEPT ![mCamera].buffers = r]
        PROVE  \A k \in Camera : /\ camera'[k].callback = camera[k].callback
                                 /\ camera'[k].opened = camera[k].opened
    BY <2>2 DEF TypeOK, ViewTypeOK, CameraRec
  <2>3. CASE Picture
    <3>1. mCamera \in Camera /\ camera[mCamera].buffers - 1 \in Nat
      BY <2>3 DEF Picture, Filming, HasBuffer, TypeOK, ViewTypeOK, CameraRec
    <3> QED
      BY <2>2, <2>3, <3>1 DEF Picture
  <2>4. CASE mCamera # None /\ \E outs \in Outputs : Encode(outs)
    <3>1. mCamera \in Camera /\ camera[mCamera].buffers + 1 \in Nat
      BY <2>4 DEF TypeOK, ViewTypeOK, CameraRec
    <3> QED
      BY <2>2, <2>4, <3>1 DEF Encode, Refilled
  <2>5. CASE onPreviewFrame
    <3>1. UNCHANGED camera \/ (mCamera # None /\ \E outs \in Outputs : Encode(outs))
      BY <2>5 DEF onPreviewFrame
    <3> QED
      BY <2>1, <2>4, <3>1
  <2> QED
    BY <2>3, <2>5 DEF Filmed
<1>3. CameraInv'
  BY <1>1, <1>2 DEF CameraInv, Exposed, Filming, TypeOK, ViewTypeOK
<1>4. ASSUME alive, ~alive' PROVE unshielded
  <2>1. /\ looper # <<>> /\ camera[Head(looper)].callback
        /\ ~(mMediaCodec /\ mCamera # None)
    BY <1>4 DEF Filmed, Picture, onPreviewFrame, Encode, tcpVideoVars
  <2>2. Head(looper) \in Camera
    BY <2>1, HeadTailProperties DEF TypeOK, ViewTypeOK
  <2>3. mCamera = None /\ None \notin Camera
    BY <2>1 DEF CameraInv, Camera, None
  <2> QED
    BY <2>1, <2>2, <2>3 DEF CameraInv, Exposed
<1> QED
  BY <1>3, <1>4

LEMMA CameraInvStep ==
  TypeOK /\ SocketInv /\ CameraInv /\ DiesOnlyExposed /\ [Next]_vars
    => CameraInv' /\ DiesOnlyExposed'
<1> SUFFICES ASSUME TypeOK, SocketInv, CameraInv, DiesOnlyExposed, [Next]_vars
             PROVE  CameraInv' /\ DiesOnlyExposed'
  OBVIOUS
<1>0. (overtaken' = {} => overtaken = {}) /\ (unshielded => unshielded')
  <2>1. CASE Answered \/ AcceptPressed
    BY <2>1 DEF Answered, AcceptPressed, StartVideo
  <2>2. CASE HungUp \/ Failed
    BY <2>2 DEF HungUp, Failed, StopVideo
  <2>3. CASE SurfaceCreated \/ (alive /\ Filmed) \/ UNCHANGED vars
    BY <2>3 DEF SurfaceCreated, Filmed, vars, histVars
  <2>4. CASE SurfaceDestroyed
    BY <2>4 DEF SurfaceDestroyed
  <2>5. CASE Destroyed
    BY <2>5 DEF Destroyed
  <2>6. CASE \E i \in Call : VideoThread(i) \/ VideoHandler(i)
    BY <2>6 DEF VideoThread, VideoHandler, histVars
  <2> QED
    BY <2>1, <2>2, <2>3, <2>4, <2>5, <2>6 DEF Next
\* A step that leaves the process alive.
<1>1. ASSUME CameraInv', alive' = alive PROVE CameraInv' /\ DiesOnlyExposed'
  BY <1>0, <1>1 DEF DiesOnlyExposed
<1>2. CASE Answered \/ AcceptPressed
  <2>1. alive' = alive
    BY <1>2 DEF Answered, AcceptPressed, StartVideo, connect
  <2> QED
    BY <1>1, <1>2, <2>1, CameraStart DEF Answered, AcceptPressed
<1>3. CASE HungUp \/ Failed
  <2>1. alive' = alive
    BY <1>3 DEF HungUp, Failed, StopVideo, stopRecord, close
  <2> QED
    BY <1>1, <1>3, <2>1, CameraStop DEF HungUp, Failed
<1>4. CASE SurfaceCreated
  BY <1>1, <1>4, CameraCreated DEF SurfaceCreated, tcpVideoVars
<1>5. CASE SurfaceDestroyed \/ Destroyed
  BY <1>1, <1>5, CameraReleased DEF SurfaceDestroyed, Destroyed, close, tcpVideoVars
<1>6. CASE alive /\ Filmed
  BY <1>0, <1>6, CameraPreview DEF DiesOnlyExposed
<1>7. ASSUME NEW i \in Call, VideoThread(i) PROVE CameraInv' /\ DiesOnlyExposed'
  <2>1. CameraInv'
    BY <1>7, CameraSame DEF VideoThread, viewVars, appVars, histVars
  <2>2. overtaken = {} => alive'
    BY <1>7, SocketStep
  <2> QED
    BY <1>0, <2>1, <2>2 DEF DiesOnlyExposed
<1>8. ASSUME NEW h \in Call, VideoHandler(h) PROVE CameraInv' /\ DiesOnlyExposed'
  BY <1>1, <1>8, CameraSame DEF VideoHandler, HandlerThread, viewVars, appVars
<1>9. CASE UNCHANGED vars
  BY <1>1, <1>9, CameraSame DEF vars, tcpVideoVars, viewVars, appVars, histVars
<1> QED
  BY <1>2, <1>3, <1>4, <1>5, <1>6, <1>7, <1>8, <1>9 DEF Next

LEMMA CameraInvInit == Init => CameraInv /\ DiesOnlyExposed
BY DEF Init, TcpVideoInit, ViewInit, CameraInv, DiesOnlyExposed, Exposed, Filming

\* The process survives every order of answers, hang-ups, frames and surface changes in
\* which no dialling is overtaken and no camera is released while recording.
THEOREM VideoSurvives == Spec => []DiesOnlyExposed
  BY TypeInit, TypeStep, SocketInvInit, SocketInvStep, CameraInvInit, CameraInvStep,
     PTL DEF Spec
-----------------------------------------------------------------------------
\* The camera is never left without a buffer.

LEMMA FilmingStep ==
  TypeOK /\ CameraInv /\ FilmingGoesOn /\ [Next]_vars => FilmingGoesOn'
<1> SUFFICES ASSUME TypeOK, CameraInv, FilmingGoesOn, [Next]_vars, alive', Filming'
             PROVE  \/ camera'[mCamera'].buffers > 0
                    \/ \E n \in DOMAIN looper' : camera'[looper'[n]].callback
  BY DEF FilmingGoesOn
<1>0. looper \in Seq(Camera) /\ None \notin Camera
  BY DEF TypeOK, ViewTypeOK, Camera, None
<1>1. CASE Answered \/ AcceptPressed
  <2>1. StartVideo
    BY <1>1 DEF Answered, AcceptPressed
  <2>2. mCamera' = mCamera /\ mCamera \in Camera /\ camera[mCamera].buffers \in Nat
    BY <2>1 DEF StartVideo, Filming, TypeOK, ViewTypeOK, CameraRec
  <2>3. camera'[mCamera].buffers = camera[mCamera].buffers + 1
    BY <1>0, <2>1, <2>2 DEF StartVideo, startRecod, TypeOK, ViewTypeOK, CameraRec
  <2> QED
    BY <2>2, <2>3
<1>2. CASE HungUp \/ Failed
  <2>1. mCamera' = mCamera /\ mCamera \in Camera /\ mCamera # None
    BY <1>2 DEF HungUp, Failed, Filming, TypeOK, ViewTypeOK
  <2>2. camera' = [camera EXCEPT ![mCamera] = Silent(@)]
    BY <1>2, <2>1 DEF HungUp, Failed, StopVideo, stopRecord
  <2>3. ~camera'[mCamera].callback
    BY <2>1, <2>2 DEF Silent, TypeOK, ViewTypeOK, CameraRec
  <2> QED
    BY <2>1, <2>3 DEF Filming
<1>3. CASE SurfaceCreated
  <2>1. PICK k \in Camera : createCamera(k)
    BY <1>3 DEF SurfaceCreated
  <2>2. mCamera' = k /\ ~camera[k].callback
    BY <2>1 DEF createCamera, CameraInv, Filming
  <2>3. ~camera'[k].callback
    BY <2>1, <2>2 DEF createCamera, TypeOK, ViewTypeOK, CameraRec
  <2> QED
    BY <2>2, <2>3 DEF Filming
<1>4. CASE SurfaceDestroyed \/ Destroyed
  BY <1>4 DEF SurfaceDestroyed, Destroyed, destroyCamera, Filming
<1>5. CASE alive /\ Filmed
  <2>1. CASE Picture
    <3>1. mCamera \in Camera /\ camera[mCamera].callback
      BY <2>1 DEF Picture, Filming, TypeOK, ViewTypeOK
    <3>2. camera'[mCamera].callback
      BY <2>1, <3>1 DEF Picture, TypeOK, ViewTypeOK, CameraRec
    <3>3. looper' = Append(looper, mCamera)
      BY <2>1 DEF Picture
    <3>4. /\ Len(looper) + 1 \in DOMAIN looper'
          /\ looper'[Len(looper) + 1] = mCamera
      BY <1>0, <3>1, <3>3, AppendProperties
    <3> QED
      BY <3>2, <3>4
  <2>2. CASE onPreviewFrame /\ \E outs \in Outputs : mCamera # None /\ Encode(outs)
    <3>1. mCamera' = mCamera /\ mCamera \in Camera /\ camera[mCamera].buffers \in Nat
      BY <2>2 DEF onPreviewFrame, TypeOK, ViewTypeOK, CameraRec
    <3>2. camera'[mCamera].buffers = camera[mCamera].buffers + 1
      BY <2>2, <3>1 DEF Encode, Refilled, TypeOK, ViewTypeOK, CameraRec
    <3> QED
      BY <3>1, <3>2
  \* A frame that is dropped brought no buffer, so it is not the one in question.
  <2>3. CASE /\ looper # <<>> /\ looper' = Tail(looper)
             /\ ~camera[Head(looper)].callback
             /\ UNCHANGED <<alive, camera, mCamera>>
    <3>1. Filming /\ alive
      BY <1>5, <2>3 DEF Filming
    <3>2. CASE camera[mCamera].buffers > 0
      BY <2>3, <3>2
    <3>3. ASSUME NEW n \in DOMAIN looper, camera[looper[n]].callback
          PROVE  \E k \in DOMAIN looper' : camera'[looper'[k]].callback
      <4>1. n \in 1 .. Len(looper) /\ n # 1
        BY <1>0, <2>3, <3>3, HeadTailProperties
      <4>2. /\ DOMAIN looper' = 1 .. (Len(looper) - 1)
            /\ \A k \in 1 .. (Len(looper) - 1) : looper'[k] = looper[k + 1]
        BY <1>0, <2>3
      <4>3. n - 1 \in DOMAIN looper' /\ looper'[n - 1] = looper[n]
        BY <1>0, <4>1, <4>2
      <4> QED
        BY <2>3, <3>3, <4>3
    <3> QED
      BY <3>1, <3>2, <3>3 DEF FilmingGoesOn
  <2>4. CASE onPreviewFrame
    BY <1>5, <2>2, <2>3, <2>4 DEF onPreviewFrame, Dies
  <2> QED
    BY <1>5, <2>1, <2>4 DEF Filmed
<1>6. CASE (\E i \in Call : VideoThread(i) \/ VideoHandler(i)) \/ UNCHANGED vars
  <2>1. UNCHANGED <<mCamera, camera, looper>> /\ alive
    BY <1>6 DEF VideoThread, VideoHandler, SocketThread, HandlerThread, viewVars, vars, tcpVideoVars
  <2> QED
    BY <2>1 DEF FilmingGoesOn, Filming
<1> QED
  BY <1>1, <1>2, <1>3, <1>4, <1>5, <1>6 DEF Next

\* Filming never starves, however many calls, cameras and empty encodings there were.
THEOREM FilmingNeverStarves == Spec => []FilmingGoesOn
<1>1. Init => FilmingGoesOn
  BY DEF Init, ViewInit, FilmingGoesOn, Filming
<1> QED
  BY <1>1, TypeInit, TypeStep, SocketInvInit, SocketInvStep, CameraInvInit, CameraInvStep,
     FilmingStep, PTL DEF Spec
-----------------------------------------------------------------------------
\* The frames: in order, and never a bare key frame.

\* Taking the first of frames in order leaves frames in order, later than it.
LEMMA InOrderTail ==
  ASSUME NEW q \in Seq(Frame), q # <<>>, NEW low \in Nat, NEW high \in Nat,
         InOrder(q, low, high)
  PROVE  /\ Head(q) \in Frame /\ Tail(q) \in Seq(Frame)
         /\ low < Head(q).no /\ Head(q).no <= high /\ Head(q).kind # "bare"
         /\ InOrder(Tail(q), low, high) /\ InOrder(Tail(q), Head(q).no, high)
<1>1. /\ Head(q) = q[1] /\ Head(q) \in Frame /\ Tail(q) \in Seq(Frame)
      /\ Len(Tail(q)) = Len(q) - 1 /\ Len(q) \in Nat /\ 1 \in 1 .. Len(q)
  BY HeadTailProperties, EmptySeq, LenProperties
<1>2. \A m \in 1 .. Len(Tail(q)) : Tail(q)[m] = q[m + 1] /\ m + 1 \in 1 .. Len(q)
  BY <1>1, HeadTailProperties
<1>3. /\ \A m \in 1 .. Len(q) : low < q[m].no /\ q[m].no <= high /\ q[m].kind # "bare"
      /\ \A m, n \in 1 .. Len(q) : m < n => q[m].no < q[n].no
  BY DEF InOrder
<1>4. /\ \A m \in 1 .. Len(Tail(q)) : Tail(q)[m].no > Head(q).no
      /\ \A m, n \in 1 .. Len(Tail(q)) : m < n => Tail(q)[m].no < Tail(q)[n].no
  BY <1>1, <1>2, <1>3
<1> QED
  BY <1>1, <1>2, <1>3, <1>4 DEF InOrder

\* Frames numbered on from high may follow frames in order up to high.
LEMMA InOrderConcat ==
  ASSUME NEW q \in Seq(Frame), NEW fs \in Seq(Frame), NEW low \in Nat, NEW high \in Nat,
         low <= high, InOrder(q, low, high),
         \A n \in 1 .. Len(fs) : fs[n].no = high + n /\ fs[n].kind # "bare"
  PROVE  InOrder(q \o fs, low, high + Len(fs))
<1> DEFINE qf == q \o fs
<1>1. /\ Len(q) \in Nat /\ Len(fs) \in Nat /\ Len(qf) = Len(q) + Len(fs)
      /\ \A m \in 1 .. Len(qf) : qf[m] = IF m <= Len(q) THEN q[m] ELSE fs[m - Len(q)]
  BY ConcatProperties, LenProperties
<1>2. /\ \A m \in 1 .. Len(q) : q[m] \in Frame /\ q[m].no \in Nat
      /\ \A m \in 1 .. Len(q) : low < q[m].no /\ q[m].no <= high /\ q[m].kind # "bare"
      /\ \A m, n \in 1 .. Len(q) : m < n => q[m].no < q[n].no
  <2>1. \A m \in 1 .. Len(q) : q[m] \in Frame
    BY <1>1, ElementOfSeq
  <2>2. \A m \in 1 .. Len(q) : q[m].no \in Nat
    BY <2>1 DEF Frame
  <2> QED
    BY <2>1, <2>2 DEF InOrder
<1>3. ASSUME NEW m \in 1 .. Len(qf)
      PROVE  /\ m <= Len(q) => m \in 1 .. Len(q) /\ qf[m] = q[m]
             /\ m > Len(q) => /\ m - Len(q) \in 1 .. Len(fs)
                              /\ qf[m].no = high + (m - Len(q)) /\ qf[m].kind # "bare"
  BY <1>1
<1>4. \A m \in 1 .. Len(qf) :
        low < qf[m].no /\ qf[m].no <= high + Len(fs) /\ qf[m].kind # "bare"
  <2> SUFFICES ASSUME NEW m \in 1 .. Len(qf)
               PROVE  low < qf[m].no /\ qf[m].no <= high + Len(fs) /\ qf[m].kind # "bare"
    OBVIOUS
  <2>1. CASE m <= Len(q)
    BY <1>1, <1>2, <1>3, <2>1
  <2>2. CASE m > Len(q)
    <3>1. /\ m - Len(q) \in 1 .. Len(fs)
          /\ qf[m].no = high + (m - Len(q)) /\ qf[m].kind # "bare"
      BY <1>3, <2>2
    <3> HIDE DEF qf
    <3> QED
      BY <1>1, <3>1
  <2> QED
    BY <1>1, <2>1, <2>2
<1>5. \A m, n \in 1 .. Len(qf) : m < n => qf[m].no < qf[n].no
  <2> SUFFICES ASSUME NEW m \in 1 .. Len(qf), NEW n \in 1 .. Len(qf), m < n
               PROVE  qf[m].no < qf[n].no
    OBVIOUS
  <2>1. CASE n <= Len(q)
    BY <1>1, <1>2, <1>3, <2>1
  <2>2. CASE m <= Len(q) /\ n > Len(q)
    BY <1>1, <1>2, <1>3, <2>2
  <2>3. CASE m > Len(q)
    <3>1. m - Len(q) \in 1 .. Len(fs) /\ qf[m].no = high + (m - Len(q))
      BY <1>3, <2>3
    <3>2. n > Len(q)
      BY <1>1, <2>3
    <3>3. n - Len(q) \in 1 .. Len(fs) /\ qf[n].no = high + (n - Len(q))
      BY <1>3, <3>2
    <3> HIDE DEF qf
    <3> QED
      BY <1>1, <3>1, <3>3
  <2> QED
    BY <1>1, <2>1, <2>2, <2>3
<1> HIDE DEF qf
<1>6. InOrder(qf, low, high + Len(fs))
  BY <1>4, <1>5 DEF InOrder
<1> QED
  BY <1>6 DEF qf

\* No key frame is bare: when the encoder puts one out, the configuration is there.
LEMMA NeverBare ==
  ASSUME shot \in Nat, configured => mPpsSps, NEW outs \in Outputs
  PROVE  /\ \A n \in 1 .. Len(outs) : Framed(outs)[n].kind # "bare"
         /\ configured \/ (outs # <<>> /\ Head(outs) = "config") => Remembered(outs)
<1>1. \A n \in 1 .. Len(outs) : outs[n] = "key" => Remembered(outs)
  <2>1. CASE configured
    BY <2>1 DEF Remembered
  <2>2. CASE ~configured
    <3>1. outs \in {<<>>, <<"config">>, <<"config", "key">>}
      BY <2>2 DEF Outputs
    <3> QED
      BY <3>1 DEF Remembered
  <2> QED
    BY <2>1, <2>2
<1>2. Len(outs) \in Nat /\ outs \in Seq(Kind)
  BY FramedType
<1>3. \A n \in 1 .. Len(outs) : n \in DOMAIN outs /\ outs[n] # "bare"
  <2>1. outs \in {<<>>, <<"key">>, <<"delta">>, <<"config">>, <<"config", "key">>}
    BY DEF Outputs
  <2> QED
    BY <2>1
<1> QED
  BY <1>1, <1>2, <1>3 DEF Framed, Remembered

LEMMA FramesInvInit == Init => FramesInv
<1> SUFFICES ASSUME Init PROVE FramesInv
  OBVIOUS
<1>1. \A h \in Call : /\ handler[h].queue = <<>> /\ handler[h].hand = NoFrame
                      /\ NoFrame.no = 0 /\ last[h] = 0 /\ wire[h] = <<>>
  BY DEF Init, TcpVideoInit, NoFrame
<1>2. shot = 0 /\ ~configured
  BY DEF Init, ViewInit
<1> QED
  BY <1>1, <1>2 DEF FramesInv, InOrder, KeyFramesCarryConfig

\* A step that moves no frame: queues are kept or dropped.
LEMMA FramesKept ==
  ASSUME FramesInv, UNCHANGED <<configured, mPpsSps, shot, wire, last>>,
         \A h \in Call : /\ handler'[h].hand = handler[h].hand
                         /\ handler'[h].queue \in {handler[h].queue, <<>>}
  PROVE  FramesInv'
<1>1. \A h \in Call : \A low \in {last[h], handler[h].hand.no} :
        InOrder(handler'[h].queue, low, shot)
  <2>1. \A low : InOrder(<<>>, low, shot)
    BY DEF InOrder
  <2>2. \A h \in Call : \A low \in {last[h], handler[h].hand.no} :
          InOrder(handler[h].queue, low, shot)
    BY DEF FramesInv
  <2> QED
    BY <2>1, <2>2
<1> QED
  BY <1>1 DEF FramesInv, KeyFramesCarryConfig, InOrder

LEMMA FramesStart ==
  ASSUME TypeOK, FramesInv, StartVideo
  PROVE  FramesInv'
<1>1. PICK i \in Call : connect(i)
  BY DEF StartVideo
<1>2. \A h \in Call : handler'[h].hand = handler[h].hand /\ handler'[h].queue = handler[h].queue
  BY <1>1 DEF connect, TypeOK, TcpVideoTypeOK, Handler
<1> QED
  BY <1>1, <1>2, FramesKept DEF StartVideo, connect

LEMMA FramesClose ==
  ASSUME TypeOK, FramesInv, close, UNCHANGED <<configured, mPpsSps, shot, last>>
  PROVE  FramesInv'
<1>1. \A h \in Call : /\ handler'[h].hand = handler[h].hand
                      /\ handler'[h].queue \in {handler[h].queue, <<>>}
  <2>1. CASE current = None
    BY <2>1 DEF close
  <2>2. CASE current # None
    BY <2>2 DEF close, Quit, TypeOK, TcpVideoTypeOK, Handler
  <2> QED
    BY <2>1, <2>2
<1> QED
  BY <1>1, FramesKept DEF close

LEMMA FramesEncode ==
  ASSUME TypeOK, FramesInv, NEW outs \in Outputs, Encode(outs), UNCHANGED <<wire, last>>
  PROVE  FramesInv'
<1> DEFINE fs == Framed(outs)
<1>1. /\ shot \in Nat /\ Len(outs) \in Nat /\ fs \in Seq(Frame) /\ Len(fs) = Len(outs)
      /\ \A n \in 1 .. Len(fs) : fs[n].no = shot + n /\ fs[n].kind # "bare"
  BY FramedType, NeverBare DEF TypeOK, ViewTypeOK, FramesInv
<1> HIDE DEF fs
<1>2. shot' = shot + Len(fs) /\ shot' \in Nat /\ shot <= shot'
  BY <1>1 DEF Encode
<1>3. configured' => mPpsSps'
  BY <1>1, NeverBare DEF Encode, FramesInv
<1>4. ASSUME NEW h \in Call
      PROVE  /\ handler'[h].hand = handler[h].hand
             /\ \A low \in {last[h], handler[h].hand.no} :
                  InOrder(handler'[h].queue, low, shot')
             /\ last[h] <= shot' /\ handler[h].hand.no <= shot'
  <2>1. /\ handler[h].queue \in Seq(Frame) /\ last[h] \in Nat /\ handler[h].hand.no \in Nat
        /\ last[h] <= shot /\ handler[h].hand.no <= shot
        /\ \A low \in {last[h], handler[h].hand.no} : InOrder(handler[h].queue, low, shot)
    BY HandlerFields DEF TypeOK, FramesInv, Frame
  <2>2. \A low \in {last[h], handler[h].hand.no} : InOrder(handler[h].queue \o fs, low, shot')
    BY <1>1, <1>2, <2>1, InOrderConcat
  <2>3. \A low \in {last[h], handler[h].hand.no} : InOrder(handler[h].queue, low, shot')
    <3>1. \A m \in 1 .. Len(handler[h].queue) : handler[h].queue[m] \in Frame
      BY <2>1, LenProperties, ElementOfSeq
    <3>2. \A m \in 1 .. Len(handler[h].queue) : handler[h].queue[m].no \in Nat
      BY <3>1 DEF Frame
    <3>3. ASSUME NEW q, NEW low, InOrder(q, low, shot),
                 \A m \in 1 .. Len(q) : q[m].no \in Nat
          PROVE  InOrder(q, low, shot')
      BY <1>1, <1>2, <3>3 DEF InOrder
    <3> QED
      BY <2>1, <3>2, <3>3
  <2>4. /\ handler'[h].hand = handler[h].hand
        /\ handler'[h].queue \in {handler[h].queue, handler[h].queue \o fs}
    <3>1. sendImage(fs)
      BY DEF Encode, fs
    <3>2. CASE current # None /\ handler[current].run
      BY <3>1, <3>2 DEF sendImage, Enqueued, TypeOK, TcpVideoTypeOK, Handler
    <3>3. CASE ~(current # None /\ handler[current].run)
      BY <3>1, <3>3 DEF sendImage
    <3> QED
      BY <3>2, <3>3
  <2>5. last[h] <= shot' /\ handler[h].hand.no <= shot'
    BY <1>1, <1>2, <2>1
  <2> QED
    BY <2>2, <2>3, <2>4, <2>5
<1> QED
  BY <1>3, <1>4 DEF FramesInv, KeyFramesCarryConfig

LEMMA FramesTake ==
  ASSUME TypeOK, FramesInv, NEW h \in Call, TakeMessage(h),
         UNCHANGED <<configured, mPpsSps, shot, last>>
  PROVE  FramesInv'
<1> DEFINE q == handler[h].queue
<1>1. /\ q \in Seq(Frame) /\ q # <<>> /\ last[h] \in Nat /\ shot \in Nat /\ last[h] <= shot
      /\ InOrder(q, last[h], shot)
  BY HandlerFields DEF TakeMessage, FramesInv, TypeOK, ViewTypeOK
<1> HIDE DEF q
<1>2. /\ Head(q) \in Frame /\ Head(q).no \in Nat
      /\ last[h] < Head(q).no /\ Head(q).no <= shot /\ Head(q).kind # "bare"
      /\ InOrder(Tail(q), last[h], shot) /\ InOrder(Tail(q), Head(q).no, shot)
  <2>1. Head(q) \in Frame => Head(q).no \in Nat
    BY DEF Frame
  <2> QED
    BY <1>1, <2>1, InOrderTail
<1>3. InOrder(Tail(q), 0, shot)
  <2>1. Tail(q) \in Seq(Frame) /\ Len(Tail(q)) \in Nat
    BY <1>1, HeadTailProperties, LenProperties
  <2>2. \A m \in 1 .. Len(Tail(q)) : Tail(q)[m] \in Frame
    BY <2>1, ElementOfSeq
  <2>3. \A m \in 1 .. Len(Tail(q)) : Tail(q)[m].no \in Nat
    BY <2>2 DEF Frame
  <2> QED
    BY <1>1, <1>2, <2>3 DEF InOrder
<1>4. handler'[h].queue = Tail(q) /\ handler'[h].hand \in {Head(q), NoFrame}
  BY DEF TakeMessage, TypeOK, TcpVideoTypeOK, Handler, q
<1>5. \A k \in Call \ {h} : handler'[k] = handler[k]
  BY DEF TakeMessage, TypeOK, TcpVideoTypeOK
<1>6. NoFrame.no = 0
  BY DEF NoFrame
<1>7. /\ InOrder(handler'[h].queue, last[h], shot)
      /\ InOrder(handler'[h].queue, handler'[h].hand.no, shot)
      /\ last[h] <= shot /\ handler'[h].hand.no <= shot
      /\ handler'[h].hand # NoFrame =>
           last[h] < handler'[h].hand.no /\ handler'[h].hand.kind # "bare"
  <2>1. CASE handler'[h].hand = NoFrame
    BY <1>1, <1>2, <1>3, <1>4, <1>6, <2>1
  <2>2. CASE handler'[h].hand = Head(q)
    BY <1>1, <1>2, <1>4, <2>2
  <2> QED
    BY <1>4, <2>1, <2>2
<1> QED
  BY <1>5, <1>7 DEF TakeMessage, FramesInv, KeyFramesCarryConfig

\* What a write does to the wires and to `last'.
LEMMA FramesWrite ==
  ASSUME TypeOK, FramesInv, NEW h \in Call, WriteFrame(h),
         last' = IF wire' # wire THEN [last EXCEPT ![h] = handler[h].hand.no] ELSE last,
         UNCHANGED <<configured, mPpsSps, shot>>
  PROVE  FramesInv'
<1>1. /\ handler[h].hand \in Frame /\ handler[h].hand # NoFrame
      /\ last[h] < handler[h].hand.no /\ handler[h].hand.no <= shot
      /\ handler[h].hand.kind # "bare"
      /\ InOrder(handler[h].queue, last[h], shot)
      /\ InOrder(handler[h].queue, handler[h].hand.no, shot)
  <2>1. handler[h].hand \in Frame
    BY HandlerFields DEF TypeOK
  <2>2. handler[h].hand # NoFrame
    BY DEF WriteFrame
  <2> QED
    BY <2>1, <2>2 DEF FramesInv
<1>2. handler'[h].queue = handler[h].queue /\ handler'[h].hand = NoFrame
  BY DEF WriteFrame, TypeOK, TcpVideoTypeOK, Handler
<1>3. last'[h] \in {last[h], handler[h].hand.no} /\ \A k \in Call \ {h} : last'[k] = last[k]
  BY DEF TypeOK
<1>4. NoFrame.no = 0
  BY DEF NoFrame
<1>5. InOrder(handler[h].queue, 0, shot)
  <2>1. /\ handler[h].queue \in Seq(Frame) /\ Len(handler[h].queue) \in Nat
        /\ last[h] \in Nat
    BY HandlerFields, LenProperties DEF TypeOK
  <2>2. \A m \in 1 .. Len(handler[h].queue) : handler[h].queue[m] \in Frame
    BY <2>1, ElementOfSeq
  <2>3. \A m \in 1 .. Len(handler[h].queue) : handler[h].queue[m].no \in Nat
    BY <2>2 DEF Frame
  <2> QED
    BY <1>1, <2>1, <2>3 DEF InOrder
<1>6. \A k \in Call \ {h} : handler'[k] = handler[k]
  BY DEF WriteFrame, TypeOK, TcpVideoTypeOK
<1>7. KeyFramesCarryConfig'
  <2>1. CASE mOutputStream \in open
    <3> DEFINE w == [call |-> h, no |-> handler[h].hand.no, kind |-> handler[h].hand.kind]
    <3>1. /\ mOutputStream \in Call /\ wire[mOutputStream] \in Seq(Written) /\ w \in Written
          /\ w.kind # "bare"
      BY <1>1, <2>1 DEF TypeOK, TcpVideoTypeOK, Frame, Written
    <3>2. /\ wire'[mOutputStream] = Append(wire[mOutputStream], w)
          /\ \A k \in Call \ {mOutputStream} : wire'[k] = wire[k]
      BY <2>1, <3>1 DEF WriteFrame, TypeOK, TcpVideoTypeOK
    <3> HIDE DEF w
    <3>3. \A n \in DOMAIN Append(wire[mOutputStream], w) :
            Append(wire[mOutputStream], w)[n].kind # "bare"
      <4>1. \A n \in 1 .. Len(wire[mOutputStream]) : wire[mOutputStream][n].kind # "bare"
        BY <3>1, LenProperties DEF FramesInv, KeyFramesCarryConfig
      <4> QED
        BY <3>1, <4>1, AppendProperties, LenProperties
    <3> QED
      BY <3>1, <3>2, <3>3 DEF FramesInv, KeyFramesCarryConfig
  <2>2. CASE mOutputStream \notin open
    BY <2>2 DEF WriteFrame, FramesInv, KeyFramesCarryConfig
  <2> QED
    BY <2>1, <2>2
<1>8. last[h] <= shot /\ 0 <= shot /\ last'[h] <= shot
  BY <1>1, <1>3 DEF FramesInv, TypeOK, ViewTypeOK
<1> QED
  BY <1>1, <1>2, <1>3, <1>4, <1>5, <1>6, <1>7, <1>8 DEF FramesInv

LEMMA FramesInvStep == TypeOK /\ FramesInv /\ [Next]_vars => FramesInv'
<1> SUFFICES ASSUME TypeOK, FramesInv, [Next]_vars PROVE FramesInv'
  OBVIOUS
<1>1. CASE Answered \/ AcceptPressed
  BY <1>1, FramesStart DEF Answered, AcceptPressed
<1>2. CASE HungUp \/ Failed
  BY <1>2, FramesClose DEF HungUp, Failed, StopVideo, stopRecord
<1>3. CASE SurfaceCreated
  BY <1>3, FramesKept DEF SurfaceCreated, tcpVideoVars, histVars
<1>4. CASE SurfaceDestroyed
  BY <1>4, FramesKept DEF SurfaceDestroyed, tcpVideoVars
<1>5. CASE Destroyed
  <2>1. UNCHANGED <<configured, mPpsSps, shot, last>>
    BY <1>5 DEF Destroyed
  <2>2. CASE close
    BY <2>1, <2>2, FramesClose
  <2>3. CASE UNCHANGED tcpVideoVars
    BY <2>1, <2>3, FramesKept DEF tcpVideoVars
  <2> QED
    BY <1>5, <2>2, <2>3 DEF Destroyed
<1>6. CASE alive /\ Filmed
  <2>1. UNCHANGED <<wire, last>>
    BY <1>6 DEF Filmed, Picture, onPreviewFrame, tcpVideoVars, histVars
  <2>2. CASE \E outs \in Outputs : Encode(outs)
    BY <2>1, <2>2, FramesEncode
  <2>3. CASE UNCHANGED <<handler, configured, mPpsSps, shot>>
    BY <2>1, <2>3, FramesKept
  <2>4. CASE Picture
    BY <2>3, <2>4 DEF Picture, tcpVideoVars
  <2>5. CASE onPreviewFrame
    BY <2>2, <2>3, <2>5 DEF onPreviewFrame
  <2> QED
    BY <1>6, <2>4, <2>5 DEF Filmed
<1>7. ASSUME NEW i \in Call, VideoThread(i) PROVE FramesInv'
  BY <1>7, FramesKept DEF VideoThread, SocketThread, viewVars, histVars
<1>8. ASSUME NEW h \in Call, VideoHandler(h) PROVE FramesInv'
  <2>1. UNCHANGED <<configured, mPpsSps, shot>>
    BY <1>8 DEF VideoHandler, viewVars
  <2>2. CASE TakeMessage(h)
    <3>1. UNCHANGED last
      BY <1>8, <2>2 DEF VideoHandler, TakeMessage
    <3> QED
      BY <2>1, <2>2, <3>1, FramesTake
  <2>3. CASE WriteFrame(h)
    BY <1>8, <2>1, <2>3, FramesWrite DEF VideoHandler
  <2> QED
    BY <1>8, <2>2, <2>3 DEF VideoHandler, HandlerThread
<1>9. CASE UNCHANGED vars
  BY <1>9, FramesKept DEF vars, tcpVideoVars, viewVars, histVars
<1> QED
  BY <1>1, <1>2, <1>3, <1>4, <1>5, <1>6, <1>7, <1>8, <1>9 DEF Next

\* Every key frame written has the configuration in front of it, in every call.
THEOREM ConfigInFront == Spec => []KeyFramesCarryConfig
<1>1. FramesInv => KeyFramesCarryConfig
  BY DEF FramesInv
<1> QED
  BY <1>1, TypeInit, TypeStep, FramesInvInit, FramesInvStep, PTL DEF Spec
-----------------------------------------------------------------------------
\* The refinement.

LEMMA ChannelStep ==
  TypeOK /\ FramesInv /\ [Next]_vars => [Channel!Next]_(Channel!vars)
<1> SUFFICES ASSUME TypeOK, FramesInv, [Next]_vars
             PROVE  Channel!Next \/ UNCHANGED Channel!vars
  OBVIOUS
<1> USE DEF Channel!vars
<1>1. CASE Answered \/ AcceptPressed
  BY <1>1 DEF Answered, AcceptPressed, StartVideo
<1>2. CASE HungUp \/ Failed
  BY <1>2 DEF HungUp, Failed
<1>3. CASE SurfaceCreated \/ SurfaceDestroyed
  BY <1>3 DEF SurfaceCreated, SurfaceDestroyed, histVars
<1>4. CASE Destroyed
  BY <1>4 DEF Destroyed
<1>5. CASE alive /\ Filmed
  <2>1. UNCHANGED last
    BY <1>5 DEF Filmed, histVars
  <2>2. CASE \E outs \in Outputs : Encode(outs)
    <3>1. PICK outs \in Outputs : Encode(outs)
      BY <2>2
    <3>2. Len(outs) \in Nat /\ shot \in Nat /\ shot' = shot + Len(outs)
      BY <3>1, FramedType DEF Encode, TypeOK, ViewTypeOK
    <3>3. shot' > shot \/ shot' = shot
      BY <3>2
    <3> QED
      BY <2>1, <3>2, <3>3 DEF Channel!Next, Channel!PutOut
  <2>3. CASE UNCHANGED shot
    BY <2>1, <2>3
  <2> QED
    BY <1>5, <2>2, <2>3 DEF Filmed, Picture, onPreviewFrame
<1>6. ASSUME NEW i \in Call, VideoThread(i) PROVE Channel!Next \/ UNCHANGED Channel!vars
  BY <1>6 DEF VideoThread, viewVars, histVars
<1>7. ASSUME NEW h \in Call, VideoHandler(h)
      PROVE  Channel!Next \/ UNCHANGED Channel!vars
  <2>1. shot' = shot
    BY <1>7 DEF VideoHandler, viewVars
  <2>2. CASE wire' = wire
    BY <1>7, <2>1, <2>2 DEF VideoHandler
  <2>3. CASE wire' # wire
    <3>1. WriteFrame(h)
      BY <1>7, <2>3 DEF VideoHandler, HandlerThread, TakeMessage
    <3>2. /\ handler[h].hand.no \in Nat /\ last[h] \in Nat /\ shot \in Nat
          /\ last[h] < handler[h].hand.no /\ handler[h].hand.no <= shot
      <4>1. handler[h].hand # NoFrame
        BY <3>1 DEF WriteFrame
      <4>2. handler[h].hand.no \in Nat
        BY HandlerFields DEF TypeOK, Frame
      <4> QED
        BY <4>1, <4>2 DEF FramesInv, TypeOK, ViewTypeOK
    <3>3. handler[h].hand.no \in 1 .. shot
      BY <3>2
    <3>4. last' = [last EXCEPT ![h] = handler[h].hand.no]
      BY <1>7, <2>3 DEF VideoHandler
    <3>5. Channel!GoOut(h, handler[h].hand.no)
      BY <2>1, <3>2, <3>4 DEF Channel!GoOut
    <3> QED
      BY <3>3, <3>5 DEF Channel!Next
  <2> QED
    BY <2>2, <2>3
<1>8. CASE UNCHANGED vars
  BY <1>8 DEF vars, viewVars, histVars
<1> QED
  BY <1>1, <1>2, <1>3, <1>4, <1>5, <1>6, <1>7, <1>8 DEF Next

\* The video path implements the channel: frames of a call go out in order, at most
\* once, and never before they were filmed, whatever is overtaken, closed or lost.
THEOREM ChannelRefined == Spec => FramesInOrder
<1>1. Init => Channel!Init
  BY DEF Init, ViewInit, Channel!Init
<1> QED
  BY <1>1, TypeInit, TypeStep, FramesInvInit, FramesInvStep, ChannelStep, PTL
     DEF Spec, FramesInOrder, Channel!Spec
-----------------------------------------------------------------------------
\* A picture goes to its own peer.

\* A step that writes nothing leaves what went astray, or forgives more of it.
LEMMA AstrayShrinks ==
  ASSUME NEW i, wire' = wire, unclosed \subseteq unclosed'
  PROVE  Astray(i)' \subseteq Astray(i)
BY DEF Astray

\* What OwnInv says of a call carries over when nothing is written and its handler
\* keeps or drops its queue.
LEMMA OwnCallKept ==
  ASSUME NEW i \in Call, OwnCall(i), wire' = wire, unclosed \subseteq unclosed',
         (i # current' /\ attempt'[i] # "unborn") \/ Astray(i) = {},
         handler'[i].hand = handler[i].hand,
         Aside(i)' => ~handler'[i].run /\ handler'[i].queue = <<>>
  PROVE  OwnCall(i)'
<1>1. Astray(i)' \subseteq Astray(i)
  BY AstrayShrinks
<1> QED
  BY <1>1 DEF OwnCall

LEMMA OwnStart ==
  ASSUME TypeOK, SocketInv, OwnInv, InUse, StartVideo
  PROVE  OwnInv'
<1>1. PICK i \in Call : connect(i)
  BY DEF StartVideo
<1>2. /\ attempt[i] = "unborn" /\ attempt'[i] = "start" /\ current' = i /\ recording'
      /\ ~handler[i].run /\ handler[i].queue = <<>> /\ handler[i].hand = NoFrame
      /\ \A k \in Call \ {i} : attempt'[k] = attempt[k] /\ handler'[k] = handler[k]
      /\ handler'[i].hand = handler[i].hand
      /\ wire' = wire /\ mSocket' = mSocket
  BY <1>1 DEF connect, StartVideo, OwnInv, TypeOK, TcpVideoTypeOK, Handler
<1>3. i # None /\ current # i
  BY <1>2 DEF OwnInv, Call, None
<1>4. ASSUME overtaken' = {}
      PROVE  OwnPart'
  <2>1. overtaken = {} /\ InFlight = {}
    BY <1>4 DEF StartVideo
  <2>2. InFlight' \subseteq {i}
    BY <1>2, <2>1 DEF InFlight
  <2>3. /\ unclosed \subseteq unclosed'
        /\ recording => current \in unclosed'
    BY DEF StartVideo
  <2>4. mSocket' \in {None, current'} \cup unclosed'
    BY <1>2, <2>1, <2>3 DEF OwnInv, OwnPart
  <2>5. ASSUME NEW k \in Call \ unclosed' PROVE OwnCall(k)'
    <3>1. k \in Call \ unclosed /\ OwnCall(k)
      BY <2>1, <2>3 DEF OwnInv, OwnPart
    <3>2. CASE k = i
      <4>1. Astray(k) = {}
        BY <1>2, <3>1, <3>2 DEF OwnCall
      <4> QED
        BY <1>2, <2>3, <3>1, <3>2, <4>1, OwnCallKept DEF Aside
    <3>3. CASE k # i
      <4>1. Aside(k)
        BY <2>3, <2>5, <3>3 DEF Aside, InUse
      <4>2. ~handler'[k].run /\ handler'[k].queue = <<>> /\ handler'[k].hand = handler[k].hand
        BY <1>2, <3>1, <3>3, <4>1 DEF OwnCall
      <4>3. (k # current' /\ attempt'[k] # "unborn") \/ Astray(k) = {}
        BY <1>2, <3>1, <3>3 DEF OwnCall
      <4> QED
        BY <1>2, <2>3, <3>1, <4>2, <4>3, OwnCallKept
    <3> QED
      BY <3>2, <3>3
  <2> QED
    BY <1>2, <2>2, <2>4, <2>5 DEF OwnPart
<1>5. ASSUME NEW k \in Call, attempt'[k] = "unborn"
      PROVE  ~handler'[k].run /\ handler'[k].queue = <<>> /\ handler'[k].hand = NoFrame
  <2>1. k # i /\ attempt[k] = "unborn" /\ handler'[k] = handler[k]
    BY <1>2, <1>5
  <2> QED
    BY <2>1 DEF OwnInv
<1>6. current' # None /\ attempt'[current'] # "unborn"
  BY <1>2, <1>3
<1> QED
  BY <1>4, <1>5, <1>6 DEF OwnInv

\* close() and the end of the recording, by a stop or the end of the activity.
LEMMA OwnStop ==
  ASSUME TypeOK, SocketInv, OwnInv, close, ~recording', unclosed' = unclosed,
         overtaken' = overtaken \cup InFlight, destroyed => destroyed'
  PROVE  OwnInv'
<1>1. /\ mSocket' = None /\ wire' = wire /\ current' = current /\ attempt' = attempt
  BY DEF close
<1>2. \A k \in Call :
        /\ handler'[k].hand = handler[k].hand
        /\ IF k = current THEN ~handler'[k].run /\ handler'[k].queue = <<>>
           ELSE handler'[k] = handler[k]
  <2>1. CASE current = None
    BY <2>1 DEF close, Call, None
  <2>2. CASE current # None
    BY <2>2 DEF close, Quit, TypeOK, TcpVideoTypeOK, Handler
  <2> QED
    BY <2>1, <2>2
<1>3. ASSUME overtaken' = {}
      PROVE  OwnPart'
  <2>1. overtaken = {} /\ InFlight = {} /\ InFlight' = {}
    BY <1>1, <1>3 DEF InFlight
  <2>2. ASSUME NEW k \in Call \ unclosed PROVE OwnCall(k)'
    <3>1. OwnCall(k)
      BY <2>1 DEF OwnInv, OwnPart
    <3>2. (k # current' /\ attempt'[k] # "unborn") \/ Astray(k) = {}
      BY <1>1, <3>1 DEF OwnCall
    <3>3. ~handler'[k].run /\ handler'[k].queue = <<>>
      BY <1>2, <3>1 DEF OwnCall, Aside
    <3> QED
      BY <1>1, <1>2, <3>1, <3>2, <3>3, OwnCallKept
  <2> QED
    BY <1>1, <2>1, <2>2 DEF OwnPart
<1> QED
  BY <1>1, <1>2, <1>3 DEF OwnInv

\* The activity ends with nothing connected: the handler of the last call is left as
\* it is.
LEMMA OwnEnd ==
  ASSUME TypeOK, OwnInv, UNCHANGED tcpVideoVars, mSocket = None, ~recording', destroyed',
         unclosed' = unclosed, overtaken' = overtaken \cup InFlight
  PROVE  OwnInv'
<1>1. UNCHANGED <<mSocket, current, attempt, handler, wire>>
  BY DEF tcpVideoVars
<1>2. ASSUME overtaken' = {}, NEW k \in Call \ unclosed PROVE OwnCall(k)'
  <2>1. OwnCall(k) /\ Astray(k)' = Astray(k)
    BY <1>1, <1>2 DEF OwnInv, OwnPart, Astray
  <2>2. Aside(k)' => Aside(k)
    BY <1>1 DEF Aside
  <2> QED
    BY <1>1, <2>1, <2>2 DEF OwnCall
<1>3. InFlight' = InFlight
  BY <1>1 DEF InFlight
<1> QED
  BY <1>1, <1>2, <1>3 DEF OwnInv, OwnPart

\* A step that touches no handler and no wire.
LEMMA OwnSame ==
  ASSUME OwnInv,
         UNCHANGED <<mSocket, current, attempt, handler, wire, destroyed, recording,
                     overtaken, unclosed>>
  PROVE  OwnInv'
<1>1. \A k \in Call : Astray(k)' = Astray(k) /\ Aside(k)' = Aside(k)
  BY DEF Astray, Aside
<1>2. InFlight' = InFlight
  BY DEF InFlight
<1> QED
  BY <1>1, <1>2 DEF OwnInv, OwnPart, OwnCall

\* The SocketThread of the present call sets the field to its own connection.
LEMMA OwnSocket ==
  ASSUME TypeOK, SocketInv, OwnInv, NEW i \in Call, SocketThread(i),
         UNCHANGED <<destroyed, recording, overtaken, unclosed>>
  PROVE  OwnInv'
<1>1. /\ attempt[i] \notin {"unborn", "done"} /\ attempt'[i] # "unborn"
      /\ \A k \in Call \ {i} : attempt'[k] = attempt[k]
      /\ mSocket' \in {mSocket, None, i}
      /\ UNCHANGED <<current, handler, wire>>
  BY DEF SocketThread, Start, CloseOld, ForgetOld, Dial, Check, GetOut, GetIn, Goto,
         TypeOK, TcpVideoTypeOK
<1>2. ASSUME overtaken' = {}
      PROVE  OwnPart'
  <2>1. overtaken = {} /\ OwnPart
    BY <1>2 DEF OwnInv
  <2>2. i \in InFlight /\ i = current /\ recording
    BY <1>1, <2>1 DEF InFlight, OwnPart, SocketInv
  <2>3. InFlight' \subseteq {current'}
    BY <1>1, <2>1, <2>2 DEF InFlight, OwnPart
  <2>4. mSocket' \in {None, current'} \cup unclosed'
    BY <1>1, <2>1, <2>2 DEF OwnPart
  <2>5. ASSUME NEW k \in Call \ unclosed PROVE OwnCall(k)'
    <3>1. OwnCall(k)
      BY <2>1 DEF OwnPart
    <3>2. (k # current' /\ attempt'[k] # "unborn") \/ Astray(k) = {}
      BY <1>1, <2>2, <3>1 DEF OwnCall
    <3>3. Aside(k)' = Aside(k)
      BY <1>1 DEF Aside
    <3> QED
      BY <1>1, <3>1, <3>2, <3>3, OwnCallKept DEF OwnCall
  <2> QED
    BY <2>2, <2>3, <2>4, <2>5 DEF OwnPart
<1>3. ASSUME NEW k \in Call, attempt'[k] = "unborn"
      PROVE  ~handler'[k].run /\ handler'[k].queue = <<>> /\ handler'[k].hand = NoFrame
  <2>1. k # i /\ attempt[k] = "unborn" /\ handler' = handler
    BY <1>1, <1>3
  <2> QED
    BY <2>1 DEF OwnInv
<1>4. current' # None => attempt'[current'] # "unborn"
  <2>1. CASE current = i
    BY <1>1, <2>1
  <2>2. CASE current # i
    BY <1>1, <2>2 DEF OwnInv, TypeOK, TcpVideoTypeOK, CallRef
  <2> QED
    BY <2>1, <2>2
<1> QED
  BY <1>1, <1>2, <1>3, <1>4 DEF OwnInv

\* New frames go to the handler of the present call, if that still runs.
LEMMA OwnSend ==
  ASSUME TypeOK, OwnInv, NEW fs, sendImage(fs),
         UNCHANGED <<mSocket, current, attempt, wire, destroyed, recording, overtaken,
                     unclosed>>
  PROVE  OwnInv'
<1>1. CASE current # None /\ handler[current].run
  <2>1. /\ \A k \in Call \ {current} : handler'[k] = handler[k]
        /\ handler'[current].hand = handler[current].hand
    BY <1>1 DEF sendImage, TypeOK, TcpVideoTypeOK, Handler, CallRef
  <2>2. current \in Call /\ attempt[current] # "unborn" /\ InFlight' = InFlight
    BY <1>1 DEF OwnInv, TypeOK, TcpVideoTypeOK, CallRef, InFlight
  <2>3. ASSUME OwnPart, NEW k \in Call \ unclosed PROVE OwnCall(k)'
    <3>1. OwnCall(k) /\ Aside(k)' = Aside(k)
      BY <2>3 DEF OwnPart, Aside
    <3>2. Aside(k) => k # current
      BY <1>1, <3>1 DEF OwnCall
    <3>3. handler'[k].hand = handler[k].hand /\ (k # current => handler'[k] = handler[k])
      BY <2>1
    <3>4. (k # current' /\ attempt'[k] # "unborn") \/ Astray(k) = {}
      BY <3>1 DEF OwnCall
    <3>5. Aside(k)' => ~handler'[k].run /\ handler'[k].queue = <<>>
      BY <3>1, <3>2, <3>3 DEF OwnCall
    <3> QED
      BY <3>1, <3>3, <3>4, <3>5, OwnCallKept
  <2>4. OwnPart => OwnPart'
    BY <2>2, <2>3 DEF OwnPart
  <2> QED
    BY <2>1, <2>2, <2>4 DEF OwnInv
<1>2. CASE ~(current # None /\ handler[current].run)
  BY <1>2, OwnSame DEF sendImage
<1> QED
  BY <1>1, <1>2

LEMMA OwnTake ==
  ASSUME TypeOK, OwnInv, NEW h \in Call, TakeMessage(h),
         UNCHANGED <<mSocket, current, attempt, destroyed, recording, overtaken, unclosed>>
  PROVE  OwnInv'
<1>1. /\ handler[h].queue # <<>> /\ wire' = wire
      /\ \A k \in Call \ {h} : handler'[k] = handler[k]
  BY DEF TakeMessage, TypeOK, TcpVideoTypeOK
<1>2. attempt[h] # "unborn" /\ InFlight' = InFlight
  BY <1>1 DEF OwnInv, InFlight
<1>3. ASSUME OwnPart, NEW k \in Call \ unclosed PROVE OwnCall(k)'
  <2>1. OwnCall(k) /\ Aside(k)' = Aside(k) /\ Astray(k)' = Astray(k)
    BY <1>1, <1>3 DEF OwnPart, Aside, Astray
  <2>2. CASE k = h
    <3>1. ~Aside(k) /\ k = current
      BY <1>1, <2>1, <2>2 DEF OwnCall, Aside
    <3> QED
      BY <2>1, <3>1 DEF OwnCall
  <2>3. CASE k # h
    BY <1>1, <2>1, <2>3 DEF OwnCall
  <2> QED
    BY <2>2, <2>3
<1>4. OwnPart => OwnPart'
  BY <1>2, <1>3 DEF OwnPart
<1> QED
  BY <1>1, <1>2, <1>4 DEF OwnInv

\* A write of a call that is not the present one takes the frame out of a hand that
\* will never hold another; one of the present call goes astray nowhere.
LEMMA OwnWrite ==
  ASSUME TypeOK, SocketInv, OwnInv, NEW h \in Call, WriteFrame(h),
         UNCHANGED <<mSocket, current, attempt, destroyed, recording, overtaken, unclosed>>
  PROVE  OwnInv'
<1>1. /\ handler[h].hand # NoFrame /\ handler'[h].hand = NoFrame
      /\ handler'[h].run = handler[h].run /\ handler'[h].queue = handler[h].queue
      /\ \A k \in Call \ {h} : handler'[k] = handler[k]
  BY DEF WriteFrame, TypeOK, TcpVideoTypeOK, Handler
<1>2. attempt[h] # "unborn" /\ InFlight' = InFlight
  BY <1>1 DEF OwnInv, InFlight
<1> DEFINE at == <<mOutputStream, Len(wire[mOutputStream]) + 1>>
           w == [call |-> h, no |-> handler[h].hand.no, kind |-> handler[h].hand.kind]
<1>3. CASE mOutputStream \in open
  <2>1. /\ mOutputStream \in Call /\ wire[mOutputStream] \in Seq(Written)
        /\ wire' = [wire EXCEPT ![mOutputStream] = Append(@, w)]
        /\ w.call = h
    BY <1>3 DEF WriteFrame, TypeOK, TcpVideoTypeOK
  <2> HIDE DEF w
  <2>2. /\ \A j \in Call \ {mOutputStream} : wire'[j] = wire[j]
        /\ wire'[mOutputStream] = Append(wire[mOutputStream], w)
        /\ DOMAIN wire[mOutputStream] = 1 .. Len(wire[mOutputStream])
        /\ DOMAIN wire'[mOutputStream] = 1 .. Len(wire[mOutputStream]) + 1
        /\ \A n \in 1 .. Len(wire[mOutputStream]) :
              wire'[mOutputStream][n] = wire[mOutputStream][n]
        /\ wire'[mOutputStream][Len(wire[mOutputStream]) + 1] = w
        /\ Len(wire[mOutputStream]) \in Nat
    BY <2>1, AppendProperties, LenProperties DEF TypeOK, TcpVideoTypeOK
  <2>3. ASSUME NEW k \in Call, NEW p \in Astray(k)', p \notin Astray(k)
        PROVE  k = h /\ p = at /\ mOutputStream \notin {h} \cup unclosed
    <3>1. PICK j \in Call \ ({k} \cup unclosed), n \in 1 .. MaxFrames :
            /\ p = <<j, n>> /\ n \in DOMAIN wire'[j] /\ wire'[j][n].call = k
      BY <2>3 DEF Astray
    <3>2. ~(n \in DOMAIN wire[j] /\ wire[j][n].call = k)
      BY <2>3, <3>1 DEF Astray
    <3>3. j = mOutputStream
      BY <2>2, <3>1, <3>2
    <3>4. n = Len(wire[mOutputStream]) + 1
      BY <2>2, <3>1, <3>2, <3>3
    <3>5. k = h
      BY <2>1, <2>2, <3>1, <3>3, <3>4
    <3> QED
      BY <3>1, <3>3, <3>4, <3>5
  <2>4. ASSUME overtaken = {}, OwnPart, NEW k \in Call \ unclosed PROVE OwnCall(k)'
    <3>1. OwnCall(k) /\ Aside(k)' = Aside(k)
      BY <2>4 DEF OwnPart, Aside
    <3>2. Aside(k)' => ~handler'[k].run /\ handler'[k].queue = <<>>
      BY <1>1, <3>1 DEF OwnCall
    <3>3. mOutputStream = mSocket /\ mSocket # None
      BY <1>3, <2>1, <2>4 DEF SocketInv, Call, None
    <3>4. mOutputStream \in {current} \cup unclosed
      BY <2>4, <3>3 DEF OwnPart
    <3>5. CASE k # h \/ k = current
      <4>1. Astray(k)' \subseteq Astray(k)
        BY <2>3, <3>4, <3>5
      <4>2. Astray(k) # {} => k # current /\ attempt[k] # "unborn" /\ handler'[k].hand = NoFrame
        BY <1>1, <3>1 DEF OwnCall
      <4> QED
        BY <3>1, <3>2, <4>1, <4>2 DEF OwnCall
    <3>6. CASE k = h /\ k # current
      <4>1. Astray(k) = {}
        BY <1>1, <3>1, <3>6 DEF OwnCall
      <4>2. \A a, b \in Astray(k)' : a = at /\ b = at
        BY <2>3, <4>1
      <4> QED
        BY <1>1, <1>2, <3>2, <3>6, <4>2 DEF OwnCall
    <3> QED
      BY <3>5, <3>6
  <2>5. overtaken = {} /\ OwnPart => OwnPart'
    BY <1>2, <2>4 DEF OwnPart
  <2> QED
    BY <1>1, <1>2, <2>5 DEF OwnInv
<1>4. CASE mOutputStream \notin open
  <2>1. wire' = wire
    BY <1>4 DEF WriteFrame
  <2>2. ASSUME OwnPart, NEW k \in Call \ unclosed PROVE OwnCall(k)'
    <3>1. OwnCall(k) /\ Aside(k)' = Aside(k) /\ Astray(k)' = Astray(k)
      BY <2>1, <2>2 DEF OwnPart, Aside, Astray
    <3> QED
      BY <1>1, <3>1 DEF OwnCall
  <2>3. OwnPart => OwnPart'
    BY <1>2, <2>2 DEF OwnPart
  <2> QED
    BY <1>1, <1>2, <2>3 DEF OwnInv
<1> QED
  BY <1>3, <1>4

LEMMA OwnInvStep == TypeOK /\ SocketInv /\ OwnInv /\ [Next]_vars => OwnInv'
<1> SUFFICES ASSUME TypeOK, SocketInv, OwnInv, [Next]_vars PROVE OwnInv'
  OBVIOUS
<1>1. CASE Answered \/ AcceptPressed
  BY <1>1, OwnStart DEF Answered, AcceptPressed
<1>2. CASE HungUp \/ Failed
  BY <1>2, OwnStop DEF HungUp, Failed, StopVideo, stopRecord
<1>3. CASE SurfaceCreated
  BY <1>3, OwnSame DEF SurfaceCreated, tcpVideoVars, histVars
<1>4. CASE SurfaceDestroyed
  BY <1>4, OwnSame DEF SurfaceDestroyed, tcpVideoVars
<1>5. CASE Destroyed
  <2>1. /\ ~recording' /\ unclosed' = unclosed /\ destroyed' /\ ~destroyed
        /\ overtaken' = overtaken \cup InFlight
    BY <1>5 DEF Destroyed, InUse
  <2>2. CASE close
    BY <2>1, <2>2, OwnStop
  <2>3. CASE UNCHANGED tcpVideoVars /\ ~isConnect
    BY <2>1, <2>3, OwnEnd DEF isConnect
  <2> QED
    BY <1>5, <2>2, <2>3 DEF Destroyed
<1>6. CASE alive /\ Filmed
  <2>1. UNCHANGED <<mSocket, current, attempt, wire, destroyed, recording, overtaken, unclosed>>
    BY <1>6 DEF Filmed, Picture, onPreviewFrame, tcpVideoVars, appVars, histVars
  <2>2. CASE \E outs \in Outputs : Encode(outs)
    BY <2>1, <2>2, OwnSend DEF Encode
  <2>3. CASE handler' = handler
    BY <2>1, <2>3, OwnSame
  <2> QED
    BY <1>6, <2>2, <2>3 DEF Filmed, Picture, onPreviewFrame, tcpVideoVars
<1>7. ASSUME NEW i \in Call, VideoThread(i) PROVE OwnInv'
  BY <1>7, OwnSocket DEF VideoThread, appVars, histVars
<1>8. ASSUME NEW h \in Call, VideoHandler(h) PROVE OwnInv'
  BY <1>8, OwnTake, OwnWrite DEF VideoHandler, HandlerThread, appVars
<1>9. CASE UNCHANGED vars
  BY <1>9, OwnSame DEF vars, tcpVideoVars, appVars, histVars
<1> QED
  BY <1>1, <1>2, <1>3, <1>4, <1>5, <1>6, <1>7, <1>8, <1>9 DEF Next

LEMMA OwnInvInit == Init => OwnInv
<1> SUFFICES ASSUME Init PROVE OwnInv
  OBVIOUS
<1>1. \A i \in Call : /\ attempt[i] = "unborn" /\ ~handler[i].run
                     /\ handler[i].queue = <<>> /\ handler[i].hand = NoFrame
  BY DEF Init, TcpVideoInit
<1>2. \A i \in Call : Astray(i) = {}
  BY DEF Init, TcpVideoInit, Astray
<1> QED
  BY <1>1, <1>2 DEF Init, TcpVideoInit, OwnInv, OwnPart, OwnCall, InFlight

\* A picture goes to the peer it was filmed for: as long as no dialling is overtaken,
\* a call that was closed before the next loses at most one frame to another
\* connection, however many calls there are and however long they last.
THEOREM OnlyOwnFrames == Spec => []OwnFramesOnly
<1>1. OwnInv => OwnFramesOnly
  BY DEF OwnInv, OwnPart, OwnCall, OwnFramesOnly
<1> QED
  BY <1>1, TypeInit, TypeStep, SocketInvInit, SocketInvStep, OwnInvInit, OwnInvStep, PTL
     DEF Spec
=============================================================================
