------------------------------ MODULE VideoUse ------------------------------
(***************************************************************************)
(* The video of a device as MainActivity drives it: an answer or an        *)
(* accepted dialog connects and starts the camera, a hang-up or a failure  *)
(* stops it; the platform creates and destroys the surface as the activity *)
(* and its views come and go.  All of it runs on the main thread.          *)
(*                                                                         *)
(* When answers and hang-ups come is IntercomCall's matter; here they come *)
(* at any time.                                                            *)
(***************************************************************************)
EXTENDS VideoSurfaceView

VARIABLES
  surface,     \* does the surface exist?
  isStart,
  destroyed    \* onDestroy() has run

appVars == <<surface, isStart, destroyed>>

VARIABLES
  recording,   \* history: the last word to the view was startRecod()
  overtaken,   \* history: calls whose SocketThread was on its way when the next
               \* connect(), a close() or the end of the activity came
  unclosed,    \* history: calls replaced by the next without a close()
  unshielded,  \* history: a camera was released while recording
  last         \* history: last[i]: the latest frame of call i written

histVars == <<recording, overtaken, unclosed, unshielded, last>>
vars == <<tcpVideoVars, viewVars, appVars, histVars>>

Init ==
  /\ TcpVideoInit /\ ViewInit
  /\ surface = FALSE /\ isStart = FALSE /\ destroyed = FALSE
  /\ recording = FALSE /\ overtaken = {} /\ unclosed = {} /\ unshielded = FALSE
  /\ last = [i \in Call |-> 0]

TypeOK ==
  /\ TcpVideoTypeOK /\ ViewTypeOK
  /\ {surface, isStart, destroyed, recording, unshielded} \subseteq BOOLEAN
  /\ overtaken \subseteq Call /\ unclosed \subseteq CallRef
  /\ last \in [Call -> Nat]
-----------------------------------------------------------------------------
InUse == alive /\ ~destroyed

\* initSocket() and startRecod(), one after the other.
StartVideo ==
  /\ \E i \in Call : connect(i)
  /\ startRecod
  /\ recording' = TRUE
  /\ overtaken' = overtaken \cup InFlight
  /\ unclosed' = IF recording THEN unclosed \cup {current} ELSE unclosed
  /\ UNCHANGED <<mCamera, looper, mMediaCodec, configured, mPpsSps, shot,
                 surface, destroyed, unshielded, last>>

StopVideo ==
  /\ stopRecord
  /\ recording' = FALSE
  /\ overtaken' = overtaken \cup InFlight

\* dataReceiveListener: the other end has accepted.
Answered ==
  /\ InUse
  /\ StartVideo
  /\ isStart' = TRUE

\* The dialog's positive button: the same but for isStart.
AcceptPressed ==
  /\ InUse
  /\ StartVideo
  /\ UNCHANGED isStart

\* btn_stop and the hang-ups leave isStart, the failures reset it.
HungUp ==
  /\ InUse
  /\ StopVideo
  /\ UNCHANGED <<mCamera, looper, mMediaCodec, configured, mPpsSps, shot, surface,
                 isStart, destroyed, unclosed, unshielded, last>>

Failed ==
  /\ InUse /\ isStart
  /\ StopVideo
  /\ isStart' = FALSE
  /\ UNCHANGED <<mCamera, looper, mMediaCodec, configured, mPpsSps, shot, surface,
                 destroyed, unclosed, unshielded, last>>

SurfaceCreated ==
  /\ InUse
  /\ ~surface /\ surface' = TRUE
  /\ \E k \in Camera : createCamera(k)
  /\ UNCHANGED <<tcpVideoVars, looper, mMediaCodec, configured, mPpsSps, shot,
                 isStart, destroyed, histVars>>

SurfaceDestroyed ==
  /\ alive
  /\ surface /\ surface' = FALSE
  /\ destroyCamera
  /\ unshielded' = (unshielded \/ recording)
  /\ UNCHANGED <<tcpVideoVars, looper, mMediaCodec, configured, mPpsSps, shot,
                 isStart, destroyed, recording, overtaken, unclosed, last>>

\* onDestroy(): stopRecord() if isStart, then closeVideo().
Destroyed ==
  /\ InUse /\ destroyed' = TRUE
  /\ mMediaCodec' = FALSE /\ mCamera' = None
  /\ camera' = IF mCamera = None THEN camera
               ELSE [camera EXCEPT ![mCamera] = IF isStart THEN Silent(@)
                                                ELSE [@ EXCEPT !.preview = FALSE]]
  /\ IF isStart \/ isConnect
     THEN close ELSE UNCHANGED tcpVideoVars
  /\ overtaken' = overtaken \cup InFlight
  /\ unshielded' = (unshielded \/ (recording /\ ~isStart))
  /\ recording' = FALSE
  /\ UNCHANGED <<looper, configured, mPpsSps, shot, surface, isStart,
                 unclosed, last>>

Filmed == (Picture \/ (alive /\ onPreviewFrame)) /\ UNCHANGED <<appVars, histVars>>

VideoThread(i) == SocketThread(i) /\ UNCHANGED <<viewVars, appVars, histVars>>

VideoHandler(h) ==
  /\ HandlerThread(h)
  /\ last' = IF wire' # wire THEN [last EXCEPT ![h] = handler[h].hand.no] ELSE last
  /\ UNCHANGED <<viewVars, appVars, recording, overtaken, unclosed, unshielded>>

Next ==
  \/ Answered \/ AcceptPressed \/ HungUp \/ Failed
  \/ SurfaceCreated \/ SurfaceDestroyed \/ Destroyed
  \/ (alive /\ Filmed)
  \/ \E i \in Call : VideoThread(i) \/ VideoHandler(i)

Spec == Init /\ [][Next]_vars
-----------------------------------------------------------------------------
\* As long as no connect() or close() overtakes a dialling, no connection is
\* forgotten and none stays up after the stop (TcpVideo.java:84, :120).
NoStrayConnection ==
  overtaken = {} => open \subseteq (IF recording THEN {mSocket} ELSE {})

\* The frames of call i that went to the connection of another call, one that was
\* closed in its time.
Astray(i) == {p \in (Call \ ({i} \cup unclosed)) \X (1 .. MaxFrames) :
                p[2] \in DOMAIN wire[p[1]] /\ wire[p[1]][p[2]].call = i}

\* A picture goes to the peer it was filmed for.  When no dialling was overtaken and
\* every call was closed before the next, one frame of a call may go astray: the
\* one its handler held when it was quit.
OwnFramesOnly ==
  overtaken = {} => \A i \in Call \ unclosed :
    \A a, b \in Astray(i) : a = b

\* The process dies of nothing but an overtaken dialling and a camera released
\* while recording: stopRecord() makes queued frames harmless (lines 297, 300, 355).
DiesOnlyExposed == ~alive => overtaken # {} \/ unshielded

\* Every key frame sent has the configuration in front, in later calls too, where
\* the encoder does not put it out again.
KeyFramesCarryConfig ==
  \A i \in Call : \A n \in DOMAIN wire[i] : wire[i][n].kind # "bare"

\* Filming never starves: the camera has a buffer, or a frame on its way back
\* brings one, however many calls, cameras and empty encodings there were.
FilmingGoesOn ==
  (alive /\ Filming) =>
    \/ camera[mCamera].buffers > 0
    \/ \E n \in DOMAIN looper : camera[looper[n]].callback

\* Frames of a call go out in order and at most once, whatever overtakes what.
Channel == INSTANCE FrameChannel WITH Call <- Call, shot <- shot, last <- last
FramesInOrder == Channel!Spec
=============================================================================
