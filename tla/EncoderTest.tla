---------------------------- MODULE EncoderTest ----------------------------
(***************************************************************************)
(* The test of the phone's encoders, EncoderDebugger.debug(), which the    *)
(* camera view runs in its constructor: it looks for an encoder and a      *)
(* colour format that work, keeps the result in the preferences, and takes *)
(* it from there as long as neither Android nor the test is a newer one.   *)
(* With it: CodecManager's list, the convertor, the view's initMediaCodec()*)
(* and the way of a picture into the encoder.                              *)
(*                                                                         *)
(* debug() runs alone, but the process may be killed between any two of    *)
(* its steps, and Android, the application and the phone's encoders are    *)
(* replaced while it is off.                                               *)
(***************************************************************************)
EXTENDS Nv21

CONSTANTS
  Phones,       \* what Android may offer: the codecs, and which really work
  MaxSdk,       \* bound: releases of Android
  MaxVersion,   \* bound: versions of the test
  Width, Height

ASSUME EncoderTestAssumption ==
  /\ MaxSdk \in Nat /\ MaxVersion \in Nat
  /\ Width \in Nat /\ Height \in Nat /\ Width % 2 = 0 /\ Height % 2 = 0

VARIABLES
  phone, sdk, version,   \* what is installed
  prefs                  \* the preferences; lastSdk 0: the key is not there

VARIABLES
  phase,        \* where the process stands; "off": it does not run
  untried,      \* the encoders and formats the loops have still to try
  mEncoderName, mEncoderColorFormat,
  mPlanar,      \* of mNV21
  mEncoder,     \* the encoder of the test
  found,        \* searchSPSandPPS() was successful
  held,         \* how many encoders the process holds
  fed           \* the picture last given to the encoder

VARIABLES
  passed,       \* history: releases and versions of which a success was saved
  unnoticed,    \* history: the encoders changed, Android's release did not
  refusal       \* history: what ended the process for want of an encoder

installed == <<phone, sdk, version>>
testVars == <<phase, untried, mEncoderName, mEncoderColorFormat, mPlanar, mEncoder, found,
              held, fed>>
vars == <<installed, prefs, testVars, passed, unnoticed, refusal>>

SemiPlanar == {"YUV420SemiPlanar", "YUV420PackedSemiPlanar", "TI_YUV420PackedSemiPlanar"}
Planar == {"YUV420Planar", "YUV420PackedPlanar"}
SUPPORTED_COLOR_FORMATS == SemiPlanar \cup Planar

NoPicture == [turned |-> FALSE, bytes |-> <<>>]

\* findEncodersForMimeType(): name and format of every AVC encoder with a format we
\* know, and one that cannot be created if there is no AVC encoder at all.  The
\* order in which they are tried is the platform's.
findEncoders ==
  LET avc == {c \in phone.codecs : c.encoder /\ c.avc} IN
  IF avc = {} THEN {<<"null", "0">>}
  ELSE UNION {{c.name} \X (c.formats \cap SUPPORTED_COLOR_FORMATS) : c \in avc}

Init ==
  /\ phone \in Phones /\ sdk = 1 /\ version = 1
  /\ prefs = [success |-> FALSE, lastSdk |-> 0, lastVersion |-> 0,
              encoderName |-> "", colorFormat |-> "0", planar |-> FALSE]
  /\ phase = "off" /\ untried = {} /\ mEncoderName = "" /\ mEncoderColorFormat = "0"
  /\ mPlanar = FALSE /\ mEncoder = "null" /\ found = FALSE /\ held = 0 /\ fed = NoPicture
  /\ passed = {} /\ unnoticed = FALSE /\ refusal = "none"

Name == {"", "null"} \cup UNION {{c.name : c \in p.codecs} : p \in Phones}
ColorFormat == SUPPORTED_COLOR_FORMATS \cup {"0"}

Preferences ==
  [success : BOOLEAN, lastSdk : Nat, lastVersion : Nat, encoderName : Name,
   colorFormat : ColorFormat, planar : BOOLEAN]

TypeOK ==
  /\ phone \in Phones /\ sdk \in Nat \ {0} /\ version \in Nat \ {0}
  /\ prefs \in Preferences
  /\ untried \subseteq Name \X ColorFormat
  /\ mEncoderName \in Name /\ mEncoderColorFormat \in ColorFormat
  /\ mPlanar \in BOOLEAN /\ found \in BOOLEAN /\ unnoticed \in BOOLEAN
  /\ phase \in {"off", "test", "search", "save", "release", "opening", "running", "dead"}
  /\ mEncoder \in {"null", "live", "released"}
  /\ held \in Nat
  /\ passed \subseteq Nat \X Nat
  /\ refusal \in {"none", "restored", "tested", "opening"}
-----------------------------------------------------------------------------
MutCheckTestNeeded ==      \* mutant: and for or
  prefs.lastSdk = 0 \/ (sdk > prefs.lastSdk /\ version > prefs.lastVersion)
checkTestNeeded ==
  prefs.lastSdk = 0 \/ sdk > prefs.lastSdk \/ version > prefs.lastVersion

\* debug() up to the loops: test, restore the result, or refuse.
Launch ==
  /\ phase = "off"
  /\ IF checkTestNeeded
     THEN /\ phase' = "test" /\ untried' = findEncoders
          /\ UNCHANGED <<mEncoderName, mEncoderColorFormat, mPlanar, refusal>>
     ELSE /\ IF prefs.success
             THEN /\ phase' = "opening"
                  /\ mEncoderName' = prefs.encoderName /\ mEncoderColorFormat' = prefs.colorFormat
                  /\ mPlanar' = prefs.planar
                  /\ UNCHANGED refusal
             ELSE /\ phase' = "dead" /\ refusal' = "restored"
                  /\ UNCHANGED <<mEncoderName, mEncoderColorFormat, mPlanar>>
          /\ UNCHANGED untried
  /\ UNCHANGED <<installed, prefs, mEncoder, found, held, fed, passed, unnoticed>>

\* One turn of the loops: reset(), a convertor for the format, configureEncoder(),
\* which may fail before or after it has an encoder.
Try(candidate) ==
  /\ phase = "test" /\ candidate \in untried
  /\ untried' = untried \ {candidate}
  /\ mEncoderName' = candidate[1] /\ mEncoderColorFormat' = candidate[2]
  /\ mPlanar' = (candidate[2] \in Planar)
  /\ found' = FALSE
  /\ \/ phase' = "release" /\ UNCHANGED <<mEncoder, held>>
     \/ /\ candidate[1] # "null"
        /\ phase' \in {"release", "search"}
        /\ mEncoder' = "live" /\ held' = held + 1
  /\ UNCHANGED <<installed, prefs, fed, passed, unnoticed, refusal>>

\* searchSPSandPPS(): even an encoder that works may be too slow.
Search ==
  /\ phase = "search"
  /\ \/ /\ <<mEncoderName, mEncoderColorFormat>> \in phone.usable
        /\ phase' = "save" /\ found' = TRUE
     \/ phase' = "release" /\ UNCHANGED found
  /\ UNCHANGED <<installed, prefs, untried, mEncoderName, mEncoderColorFormat, mPlanar,
                 mEncoder, held, fed, passed, unnoticed, refusal>>

\* What one commit() writes: a failure goes without release and version.
Success == [success |-> TRUE, lastSdk |-> sdk, lastVersion |-> version,
            encoderName |-> mEncoderName, colorFormat |-> mEncoderColorFormat,
            planar |-> mPlanar]
MutFailureDated(success) ==      \* mutant: a failure is dated as well
  IF success THEN Success
  ELSE [prefs EXCEPT !.success = FALSE, !.lastSdk = sdk, !.lastVersion = version]
MutVersionForgotten(success) ==  \* mutant: lastVersion is not written
  IF success THEN [Success EXCEPT !.lastVersion = prefs.lastVersion]
  ELSE [prefs EXCEPT !.success = FALSE]
Saved(success) == IF success THEN Success ELSE [prefs EXCEPT !.success = FALSE]

\* saveTestResult(): whether commit() reached the disk nobody asks.
saveTestResult(success) == prefs' \in {Saved(success), prefs}

Save ==
  /\ phase = "save" /\ phase' = "release"
  /\ saveTestResult(TRUE)
  /\ IF prefs' = Saved(TRUE)
     THEN passed' = passed \cup {<<sdk, version>>} /\ unnoticed' = FALSE
     ELSE UNCHANGED <<passed, unnoticed>>
  /\ UNCHANGED <<installed, untried, mEncoderName, mEncoderColorFormat, mPlanar, mEncoder,
                 found, held, fed, refusal>>

\* releaseEncoder(): nothing is lost by releasing a second time, mEncoder is never
\* set back to null.
MutOnSuccess == IF mEncoder = "live" /\ found THEN held - 1 ELSE held   \* mutant: no finally
MutTwice == IF mEncoder # "null" THEN held - 1 ELSE held   \* mutant: one more is let go
Released == IF mEncoder = "live" THEN held - 1 ELSE held

\* The finally clause, and on: to the next turn, or back to the view.
Release ==
  /\ phase = "release"
  /\ phase' = IF found THEN "opening" ELSE "test"
  /\ held' = Released
  /\ mEncoder' = IF mEncoder = "live" THEN "released" ELSE mEncoder
  /\ UNCHANGED <<installed, prefs, untried, mEncoderName, mEncoderColorFormat, mPlanar,
                 found, fed, passed, unnoticed, refusal>>

\* No encoder works: the exception goes through the view's constructor.
GiveUp ==
  /\ phase = "test" /\ untried = {}
  /\ saveTestResult(FALSE)
  /\ phase' = "dead" /\ refusal' = "tested"
  /\ UNCHANGED <<installed, untried, mEncoderName, mEncoderColorFormat, mPlanar, mEncoder,
                 found, held, fed, passed, unnoticed>>
-----------------------------------------------------------------------------
\* initMediaCodec(): an IOException leaves the view without an encoder, any other
\* goes through the constructor.
Open ==
  /\ phase = "opening"
  /\ \/ /\ <<mEncoderName, mEncoderColorFormat>> \in phone.usable
        /\ phase' = "running" /\ held' = held + 1 /\ UNCHANGED refusal
     \/ phase' = "running" /\ UNCHANGED <<held, refusal>>
     \/ phase' = "dead" /\ refusal' = "opening" /\ UNCHANGED held
  /\ UNCHANGED <<installed, prefs, untried, mEncoderName, mEncoderColorFormat, mPlanar,
                 mEncoder, found, fed, passed, unnoticed>>

\* onPreviewFrame(): upright, the picture is turned first.
Feed(degree) ==
  /\ phase = "running" /\ held = 1
  /\ LET data == Taken(Width, Height)
         dst == IF degree = 0 THEN rotateNV21Degree90(data, Width, Height) ELSE data
     IN  fed' = [turned |-> degree = 0, bytes |-> convert(dst, Width * Height, mPlanar)]
  /\ UNCHANGED <<installed, prefs, phase, untried, mEncoderName, mEncoderColorFormat, mPlanar,
                 mEncoder, found, held, passed, unnoticed, refusal>>

\* The process ends, killed or after its exception; what it held goes with it.
Killed ==
  /\ phase # "off" /\ phase' = "off"
  /\ untried' = {} /\ mEncoder' = "null" /\ found' = FALSE /\ held' = 0 /\ fed' = NoPicture
  /\ UNCHANGED <<installed, prefs, mEncoderName, mEncoderColorFormat, mPlanar, passed,
                 unnoticed, refusal>>

\* While the process is off: a new Android, with other encoders perhaps; other encoders
\* under the same release (a patch, or the backup of another phone, which
\* allowBackup permits); a new version of the test.
Upgraded ==
  /\ phase = "off"
  /\ \/ sdk < MaxSdk /\ sdk' = sdk + 1 /\ phone' \in Phones /\ UNCHANGED <<version, unnoticed>>
     \/ phone' \in Phones \ {phone} /\ unnoticed' = TRUE /\ UNCHANGED <<sdk, version>>
     \/ version < MaxVersion /\ version' = version + 1 /\ UNCHANGED <<phone, sdk, unnoticed>>
  /\ UNCHANGED <<prefs, testVars, passed, refusal>>

Next ==
  \/ Launch \/ (\E c \in untried : Try(c)) \/ Search \/ Save \/ Release \/ GiveUp
  \/ Open \/ (\E d \in {0, 90} : Feed(d))
  \/ Killed \/ Upgraded

Spec == Init /\ [][Next]_vars
-----------------------------------------------------------------------------
\* The test never holds two encoders, and none when the next turn or the view opens
\* its own, whichever of its steps failed (releaseEncoder() in the finally clause).
OneEncoderAtATime ==
  /\ held <= 1
  /\ phase \in {"test", "opening"} => held = 0

\* The encoder and format in use, tested or restored, are ones that work on this
\* phone, unless its encoders changed under the same release of Android.
ResultInForce ==
  phase \in {"opening", "running"} /\ ~unnoticed
    => <<mEncoderName, mEncoderColorFormat>> \in phone.usable

\* After a success the test runs again only under a newer Android or as a newer
\* test, wherever the process was killed (comment of saveTestResult()).
TestedOnce ==
  phase \in {"test", "search", "save"} => <<sdk, version>> \notin passed

\* Nobody is refused by the preferences: when they hold a failure, the test runs
\* again, at every start (the throw of EncoderDebugger.java:174 is never reached).
RefusedByTestOnly == refusal # "restored"

\* The encoder gets the picture, turned or not, in the order of bytes of its format,
\* with the convertor of the test and with the restored one.
FedAsWanted ==
  fed # NoPicture =>
    fed.bytes = Wanted(Width, Height, fed.turned, mEncoderColorFormat \in Planar)
=============================================================================
