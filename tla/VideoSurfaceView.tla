-------------------------- MODULE VideoSurfaceView --------------------------
(***************************************************************************)
(* The camera view of a call: com.xwr.videocode.VideoSurfaceView, which    *)
(* films into an encoder and hands what comes out to TcpVideo.             *)
(*                                                                         *)
(* The camera posts its preview frames to the main Looper; the methods of  *)
(* the view and its callback run there too, so each is one step.  Every    *)
(* Camera.open() gives a new camera object, the callback set on it stays   *)
(* with it, and so do the frames it has posted.                            *)
(*                                                                         *)
(* The view starts with its encoder; how it gets one, or none, is          *)
(* EncoderTest.                                                            *)
(*                                                                         *)
(* External: the camera fills a buffer while preview is on and somebody    *)
(* waits for frames; the encoder puts out its configuration once, first    *)
(* of all.  (The field `camera`, which stopCamera() looks at, is never     *)
(* set: stopCamera() does nothing.)                                        *)
(***************************************************************************)
EXTENDS TcpVideo

CONSTANTS
  MaxCameras,  \* bound: calls of Camera.open()
  MaxFrames    \* bound: frames the encoder puts out

ASSUME VideoViewAssumption == MaxCameras \in Nat /\ MaxFrames \in Nat

VARIABLES
  mCamera,
  camera,      \* camera[k]: the k-th camera object
  looper,      \* the preview frames on the main Looper: which camera each is of
  mMediaCodec, \* is the encoder there? (FALSE: null)
  configured,  \* the encoder has put out its configuration
  mPpsSps,     \* does the field hold the configuration?
  shot         \* how many frames the encoder has put out

viewVars == <<mCamera, camera, looper, mMediaCodec, configured, mPpsSps, shot>>

Camera == 1 .. MaxCameras

CameraRec == [opened : BOOLEAN, preview : BOOLEAN, callback : BOOLEAN, buffers : Nat]

ViewInit ==
  /\ mCamera = None
  /\ camera = [k \in Camera |-> [opened |-> FALSE, preview |-> FALSE,
                                 callback |-> FALSE, buffers |-> 0]]
  /\ looper = <<>>
  /\ mMediaCodec = TRUE
  /\ configured = FALSE /\ mPpsSps = FALSE /\ shot = 0

ViewTypeOK ==
  /\ mCamera \in Camera \cup {None}
  /\ camera \in [Camera -> CameraRec]
  /\ looper \in Seq(Camera)
  /\ {mMediaCodec, configured, mPpsSps} \subseteq BOOLEAN
  /\ shot \in Nat
-----------------------------------------------------------------------------
\* Is the camera at work for a call?
Filming == mCamera # None /\ camera[mCamera].callback

\* The camera objects other than the present one that still have the callback.
Exposed == {k \in Camera \ {mCamera} : camera[k].callback}

\* createCamera(): opening may fail, in use elsewhere for one.
createCamera(k) ==
  /\ ~camera[k].opened /\ \A j \in Camera : j < k => camera[j].opened
  /\ \/ mCamera' = k
     \/ mCamera' = None
  /\ camera' = [camera EXCEPT ![k].opened = TRUE]

\* destroyCamera(): the callback stays set.
destroyCamera ==
  /\ mCamera' = None
  /\ camera' = IF mCamera = None THEN camera
               ELSE [camera EXCEPT ![mCamera].preview = FALSE]

\* startRecod(): without a camera nothing but a line in the log.
startRecod ==
  camera' = IF mCamera = None THEN camera
            ELSE [camera EXCEPT ![mCamera].preview = TRUE,
                                ![mCamera].callback = TRUE,
                                ![mCamera].buffers = @ + 1]

\* setPreviewCallbackWithBuffer(null), which gives the buffers back, and stopPreview().
MutSilent(c) == [c EXCEPT !.preview = FALSE]    \* mutant: the callback stays
Silent(c) == [c EXCEPT !.preview = FALSE, !.callback = FALSE, !.buffers = 0]

stopRecord ==
  /\ camera' = IF mCamera = None THEN camera
               ELSE [camera EXCEPT ![mCamera] = Silent(@)]
  /\ close
-----------------------------------------------------------------------------
MutHasBuffer(k) == TRUE     \* mutant: setPreviewCallback(), without buffers
HasBuffer(k) == camera[k].buffers > 0

\* The camera puts a picture into a buffer and posts it.
Picture ==
  /\ Filming /\ camera[mCamera].preview /\ HasBuffer(mCamera)
  /\ camera' = [camera EXCEPT ![mCamera].buffers = @ - 1]
  /\ looper' = Append(looper, mCamera)
  /\ UNCHANGED <<tcpVideoVars, mCamera, mMediaCodec, configured, mPpsSps, shot>>

\* What the encoder may put out for a picture, as the kinds of its frames.
Outputs ==
  IF configured THEN {<<>>, <<"key">>, <<"delta">>}
  ELSE {<<>>, <<"config">>, <<"config", "key">>}

\* mPpsSps after the outputs, which outlives the call.
MutRemembered(outs) == outs # <<>> /\ Head(outs) = "config"   \* mutant: this picture's only
Remembered(outs) == mPpsSps \/ (outs # <<>> /\ Head(outs) = "config")

\* The frames sent for the outputs: a key frame gets mPpsSps in front of it.
Framed(outs) ==
  [n \in DOMAIN outs |->
    [no |-> shot + n,
     kind |-> IF outs[n] = "key" /\ ~Remembered(outs) THEN "bare" ELSE outs[n]]]

\* The finally clause: the buffer goes to the camera of now.
MutRefilled(outs) ==      \* mutant: only if the encoder put something out
  IF outs = <<>> THEN camera ELSE [camera EXCEPT ![mCamera].buffers = @ + 1]
Refilled(outs) == [camera EXCEPT ![mCamera].buffers = @ + 1]

Encode(outs) ==
  /\ shot + Len(outs) <= MaxFrames
  /\ mPpsSps' = Remembered(outs)
  /\ configured' = (configured \/ (outs # <<>> /\ Head(outs) = "config"))
  /\ shot' = shot + Len(outs)
  /\ sendImage(Framed(outs))
  /\ camera' = Refilled(outs)
  /\ UNCHANGED <<alive, open>>

\* onPreviewFrame(): the camera's handler drops a frame whose camera has no callback;
\* without encoder or camera the callback ends the process.
onPreviewFrame ==
  /\ looper # <<>>
  /\ looper' = Tail(looper)
  /\ \/ /\ ~camera[Head(looper)].callback
        /\ UNCHANGED <<alive, open, handler, camera, configured, mPpsSps, shot>>
     \/ /\ camera[Head(looper)].callback
        /\ IF mMediaCodec /\ mCamera # None
           THEN \E outs \in Outputs : Encode(outs)
           ELSE Dies /\ UNCHANGED <<handler, camera, configured, mPpsSps, shot>>
  /\ UNCHANGED <<mSocket, mOutputStream, current, attempt, wire, mCamera, mMediaCodec>>
=============================================================================
