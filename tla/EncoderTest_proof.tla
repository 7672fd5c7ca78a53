------------------------- MODULE EncoderTest_proof -------------------------
(***************************************************************************)
(* Theorems about EncoderTest, for any phones and any number of releases   *)
(* of Android and versions of the test.                                    *)
(*                                                                         *)
(* None of the properties is inductive.  They rest on HeldInv (an encoder  *)
(* held is the one of the field mEncoder), DatesInv (the preferences are   *)
(* never newer than what is installed, a failure they hold is never a      *)
(* current one, and the loops run only while they are outdated),           *)
(* ResultInv (a current success names an encoder that works) and           *)
(* ConvertorInv (the convertor is planar if the format is, in the fields   *)
(* and in the preferences).  What the convertor makes of a picture is a    *)
(* matter of indices: lemmas on products, quotients and remainders lead to *)
(* UVSwapped and UVSplit.                                                  *)
(***************************************************************************)
EXTENDS EncoderTest, TLAPS

InLoops == phase \in {"test", "search", "save"} \/ (phase = "release" /\ ~found)

\* The preferences and the history of the tests.
DatesInv ==
  /\ prefs.lastSdk <= sdk /\ prefs.lastVersion <= version
  /\ ~prefs.success => checkTestNeeded
  /\ InLoops => checkTestNeeded
  /\ phase = "search" => ~found
  /\ phase = "save" => found
  /\ passed \subseteq (1 .. sdk) \X (1 .. version)
  /\ <<sdk, version>> \in passed => ~checkTestNeeded

\* What the result in the preferences, and the one in use, are worth.
ResultInv ==
  /\ prefs.success /\ ~checkTestNeeded /\ ~unnoticed
       => <<prefs.encoderName, prefs.colorFormat>> \in phone.usable
  /\ phase = "save" \/ (phase = "release" /\ found)
       => <<mEncoderName, mEncoderColorFormat>> \in phone.usable
  /\ phase \in {"opening", "running"}
       => unnoticed \/ <<mEncoderName, mEncoderColorFormat>> \in phone.usable

HeldInv ==
  /\ phase = "off" => mEncoder = "null"
  /\ phase \in {"off", "test", "opening"} => mEncoder # "live" /\ held = 0
  /\ phase \in {"search", "save"} => mEncoder = "live" /\ held = 1
  /\ phase = "release" => held = IF mEncoder = "live" THEN 1 ELSE 0
  /\ held <= 1
-----------------------------------------------------------------------------
\* Types.

LEMMA FoundType == phone \in Phones => findEncoders \subseteq Name \X ColorFormat
<1> SUFFICES ASSUME phone \in Phones, NEW p \in findEncoders
             PROVE  p \in Name \X ColorFormat
  OBVIOUS
<1>1. CASE p = <<"null", "0">>
  BY <1>1 DEF Name, ColorFormat
<1>2. CASE \E c \in phone.codecs : p \in {c.name} \X (c.formats \cap SUPPORTED_COLOR_FORMATS)
  <2>1. PICK c \in phone.codecs :
             p \in {c.name} \X (c.formats \cap SUPPORTED_COLOR_FORMATS)
    BY <1>2
  <2>2. c.name \in {d.name : d \in phone.codecs}
    OBVIOUS
  <2>3. c.name \in Name
    BY <2>2 DEF Name
  <2> QED
    BY <2>1, <2>3 DEF ColorFormat
<1> QED
  BY <1>1, <1>2 DEF findEncoders

LEMMA SavedType ==
  ASSUME TypeOK, NEW s \in BOOLEAN
  PROVE  /\ Saved(s) \in Preferences
         /\ s => /\ Saved(s).success /\ Saved(s).lastSdk = sdk
                 /\ Saved(s).lastVersion = version
                 /\ Saved(s).encoderName = mEncoderName
                 /\ Saved(s).colorFormat = mEncoderColorFormat
         /\ ~s => /\ Saved(s).lastSdk = prefs.lastSdk
                  /\ Saved(s).lastVersion = prefs.lastVersion
                  /\ ~Saved(s).success
BY DEF Saved, Success, TypeOK, Preferences

LEMMA TypeInit == Init => TypeOK
<1> SUFFICES ASSUME Init PROVE TypeOK
  OBVIOUS
<1>1. "" \in Name /\ "0" \in ColorFormat
  BY DEF Name, ColorFormat
<1>2. prefs \in Preferences
  BY <1>1 DEF Init, Preferences
<1>3. untried = {} /\ passed = {}
  BY DEF Init
<1>4. phone \in Phones /\ sdk \in Nat \ {0} /\ version \in Nat \ {0} /\ held \in Nat
  <2>1. phone \in Phones /\ sdk = 1 /\ version = 1 /\ held = 0
    BY Zenon DEF Init
  <2> QED
    BY <2>1
<1>5. mPlanar \in BOOLEAN /\ found \in BOOLEAN /\ unnoticed \in BOOLEAN
  BY Zenon DEF Init
<1> QED
  BY <1>1, <1>2, <1>3, <1>4, <1>5 DEF Init, TypeOK

LEMMA TypeStep == TypeOK /\ HeldInv /\ [Next]_vars => TypeOK'
<1> SUFFICES ASSUME TypeOK, HeldInv, [Next]_vars PROVE TypeOK'
  OBVIOUS
<1> USE DEF installed
<1>1. CASE Launch
  BY <1>1, FoundType DEF Launch, TypeOK, Preferences
<1>2. ASSUME NEW c \in untried, Try(c) PROVE TypeOK'
  <2>1. c[1] \in Name /\ c[2] \in ColorFormat /\ mPlanar' \in BOOLEAN
    BY <1>2 DEF TypeOK, Try
  <2>2. /\ phase' \in {"search", "release"} /\ mEncoder' \in {mEncoder, "live"}
        /\ held' \in {held, held + 1} /\ untried' \subseteq untried /\ found' = FALSE
    BY <1>2 DEF Try
  <2> QED
    <3>1. UNCHANGED <<phone, sdk, version, prefs, passed, unnoticed, refusal>>
      BY <1>2 DEF Try
    <3>2. mEncoderName' = c[1] /\ mEncoderColorFormat' = c[2]
      BY <1>2 DEF Try
    <3>3. untried' \subseteq Name \X ColorFormat /\ held' \in Nat
      BY <2>2 DEF TypeOK
    <3>4. found' \in BOOLEAN
      BY <2>2, Zenon
    <3> QED
      BY <2>1, <2>2, <3>1, <3>2, <3>3, <3>4 DEF TypeOK
<1>3. CASE Search
  BY <1>3 DEF Search, TypeOK
<1>4. CASE Save
  <2>1. prefs' \in Preferences
    BY <1>4, SavedType DEF Save, saveTestResult, TypeOK
  <2>2. passed' \subseteq Nat \X Nat /\ unnoticed' \in BOOLEAN
    <3>1. <<sdk, version>> \in Nat \X Nat
      BY DEF TypeOK
    <3>2. passed' \in {passed, passed \cup {<<sdk, version>>}} /\ unnoticed' \in {unnoticed, FALSE}
      BY <1>4 DEF Save
    <3> QED
      BY <3>1, <3>2 DEF TypeOK
  <2> QED
    BY <1>4, <2>1, <2>2 DEF Save, TypeOK
<1>5. CASE Release
  BY <1>5 DEF Release, Released, HeldInv, TypeOK
<1>6. CASE GiveUp
  BY <1>6, SavedType DEF GiveUp, saveTestResult, TypeOK
<1>7. CASE Open
  BY <1>7 DEF Open, TypeOK
<1>8. ASSUME NEW d \in {0, 90}, Feed(d) PROVE TypeOK'
  BY <1>8 DEF Feed, TypeOK
<1>9. CASE Killed
  BY <1>9 DEF Killed, TypeOK
<1>10. CASE Upgraded
  <2>1. phone' \in Phones /\ sdk' \in Nat \ {0} /\ version' \in Nat \ {0}
    BY <1>10 DEF Upgraded, TypeOK
  <2>2. unnoticed' \in BOOLEAN
    BY <1>10 DEF Upgraded, TypeOK
  <2> QED
    BY <1>10, <2>1, <2>2 DEF Upgraded, TypeOK, testVars
<1>11. CASE UNCHANGED vars
  BY <1>11 DEF vars, testVars, TypeOK
<1> QED
  BY <1>1, <1>2, <1>3, <1>4, <1>5, <1>6, <1>7, <1>8, <1>9, <1>10, <1>11 DEF Next
-----------------------------------------------------------------------------
\* The encoders held.

LEMMA HeldStep == TypeOK /\ HeldInv /\ [Next]_vars => HeldInv'
<1> SUFFICES ASSUME TypeOK, HeldInv, [Next]_vars PROVE HeldInv'
  OBVIOUS
<1>1. CASE Launch
  BY <1>1 DEF Launch, HeldInv
<1>2. ASSUME NEW c \in untried, Try(c) PROVE HeldInv'
  BY <1>2 DEF Try, HeldInv, TypeOK
<1>3. CASE Search
  BY <1>3 DEF Search, HeldInv
<1>4. CASE Save
  BY <1>4 DEF Save, HeldInv
<1>5. CASE Release
  BY <1>5 DEF Release, Released, HeldInv
<1>6. CASE GiveUp
  BY <1>6 DEF GiveUp, HeldInv
<1>7. CASE Open
  BY <1>7 DEF Open, HeldInv
<1>8. ASSUME NEW d \in {0, 90}, Feed(d) PROVE HeldInv'
  BY <1>8 DEF Feed, HeldInv
<1>9. CASE Killed
  BY <1>9 DEF Killed, HeldInv
<1>10. CASE Upgraded
  BY <1>10 DEF Upgraded, testVars, HeldInv
<1>11. CASE UNCHANGED vars
  BY <1>11 DEF vars, testVars, HeldInv
<1> QED
  BY <1>1, <1>2, <1>3, <1>4, <1>5, <1>6, <1>7, <1>8, <1>9, <1>10, <1>11 DEF Next

LEMMA HeldInit == Init => HeldInv
<1>1. Init => phase = "off" /\ mEncoder = "null" /\ held = 0
  BY Zenon DEF Init
<1> QED
  BY <1>1 DEF HeldInv

\* Every field keeps its type; no encoder is released that is not held.
THEOREM EncoderTypeCorrect == Spec => []TypeOK
  BY TypeInit, TypeStep, HeldInit, HeldStep, PTL DEF Spec

\* The test never holds two encoders, and none when another is about to be opened.
THEOREM OneEncoderHeld == Spec => []OneEncoderAtATime
<1>1. HeldInv => OneEncoderAtATime
  BY DEF HeldInv, OneEncoderAtATime
<1> QED
  BY <1>1, TypeInit, TypeStep, HeldInit, HeldStep, PTL DEF Spec
-----------------------------------------------------------------------------
\* The dates in the preferences.

LEMMA PrefsInit ==
  Init => prefs.lastSdk = 0 /\ prefs.lastVersion = 0 /\ ~prefs.success
<1> SUFFICES ASSUME Init
             PROVE  prefs.lastSdk = 0 /\ prefs.lastVersion = 0 /\ ~prefs.success
  OBVIOUS
<1>1. prefs = [success |-> FALSE, lastSdk |-> 0, lastVersion |-> 0,
               encoderName |-> "", colorFormat |-> "0", planar |-> FALSE]
  BY Zenon DEF Init
<1>2. prefs.lastSdk = 0 /\ prefs.lastVersion = 0
  BY <1>1
<1>3. ~prefs.success
  BY <1>1
<1> QED
  BY <1>2, <1>3

LEMMA DatesInit == Init => DatesInv
<1>1. Init => phase = "off" /\ sdk = 1 /\ version = 1 /\ passed = {}
  BY Zenon DEF Init
<1> QED
  BY <1>1, PrefsInit DEF DatesInv, InLoops, checkTestNeeded

LEMMA DatesStep == TypeOK /\ DatesInv /\ [Next]_vars => DatesInv'
<1> SUFFICES ASSUME TypeOK, DatesInv, [Next]_vars PROVE DatesInv'
  OBVIOUS
<1>0. /\ sdk \in Nat /\ version \in Nat /\ sdk > 0 /\ version > 0
      /\ prefs.lastSdk \in Nat /\ prefs.lastVersion \in Nat
  BY DEF TypeOK, Preferences
<1> USE DEF installed
\* A step that leaves the preferences and what is installed alone.
<1>a. ASSUME UNCHANGED <<sdk, version, prefs, passed>>,
             InLoops' => checkTestNeeded, phase' = "search" => ~found',
             phase' = "save" => found'
      PROVE  DatesInv'
  BY <1>a DEF DatesInv, checkTestNeeded
<1>1. CASE Launch
  BY <1>1, <1>a DEF Launch, DatesInv, InLoops
<1>2. ASSUME NEW c \in untried, Try(c) PROVE DatesInv'
  BY <1>2, <1>a DEF Try, DatesInv, InLoops
<1>3. CASE Search
  BY <1>3, <1>a DEF Search, DatesInv, InLoops
<1>4. CASE Save
  <2>1. CASE prefs' = prefs /\ passed' = passed
    BY <1>4, <2>1, <1>a DEF Save, DatesInv, InLoops
  <2>2. CASE prefs' = Saved(TRUE) /\ passed' = passed \cup {<<sdk, version>>}
    <3>1. /\ prefs'.success /\ prefs'.lastSdk = sdk /\ prefs'.lastVersion = version
          /\ sdk' = sdk /\ version' = version /\ phase' = "release" /\ found'
      BY <1>4, <2>2, SavedType DEF Save, DatesInv
    <3>2. ~checkTestNeeded'
      BY <1>0, <3>1 DEF checkTestNeeded
    <3>3. <<sdk, version>> \in (1 .. sdk) \X (1 .. version)
      BY <1>0
    <3>4. passed' \subseteq (1 .. sdk') \X (1 .. version')
      BY <2>2, <3>1, <3>3 DEF DatesInv
    <3> QED
      BY <1>0, <3>1, <3>2, <3>4 DEF DatesInv, InLoops
  <2> QED
    BY <1>4, <2>1, <2>2 DEF Save, saveTestResult
<1>5. CASE Release
  BY <1>5, <1>a DEF Release, DatesInv, InLoops
<1>6. CASE GiveUp
  <2>1. checkTestNeeded /\ phase' = "dead" /\ UNCHANGED <<sdk, version, passed, found>>
    BY <1>6 DEF GiveUp, DatesInv, InLoops
  <2>2. prefs'.lastSdk = prefs.lastSdk /\ prefs'.lastVersion = prefs.lastVersion
    BY <1>6, SavedType DEF GiveUp, saveTestResult
  <2>3. checkTestNeeded'
    BY <2>1, <2>2 DEF checkTestNeeded
  <2> QED
    BY <2>1, <2>2, <2>3 DEF DatesInv, InLoops
<1>7. CASE Open
  BY <1>7, <1>a DEF Open, DatesInv, InLoops
<1>8. ASSUME NEW d \in {0, 90}, Feed(d) PROVE DatesInv'
  BY <1>8, <1>a DEF Feed, DatesInv, InLoops
<1>9. CASE Killed
  BY <1>9, <1>a DEF Killed, DatesInv, InLoops
<1>10. CASE Upgraded
  <2>1. /\ phase = "off" /\ phase' = "off" /\ prefs' = prefs /\ passed' = passed
        /\ ~InLoops'
    BY <1>10 DEF Upgraded, testVars, InLoops
  <2>2. CASE UNCHANGED <<sdk, version>>
    BY <2>1, <2>2, <1>a
  <2>3. CASE \/ sdk' = sdk + 1 /\ version' = version
             \/ sdk' = sdk /\ version' = version + 1
    <3>1. <<sdk', version'>> \notin passed /\ checkTestNeeded'
      BY <1>0, <2>1, <2>3 DEF DatesInv, checkTestNeeded
    <3>2. passed \subseteq (1 .. sdk') \X (1 .. version')
      BY <1>0, <2>3 DEF DatesInv
    <3> QED
      BY <1>0, <2>1, <2>3, <3>1, <3>2 DEF DatesInv
  <2> QED
    BY <1>10, <2>2, <2>3 DEF Upgraded
<1>11. CASE UNCHANGED vars
  BY <1>11, <1>a DEF vars, testVars, DatesInv, InLoops
<1> QED
  BY <1>1, <1>2, <1>3, <1>4, <1>5, <1>6, <1>7, <1>8, <1>9, <1>10, <1>11 DEF Next

\* After a success the test runs again only under a newer Android or as a newer test.
THEOREM TestedOnlyOnce == Spec => []TestedOnce
<1>1. DatesInv => TestedOnce
  BY DEF DatesInv, InLoops, TestedOnce
<1> QED
  BY <1>1, TypeInit, TypeStep, HeldInit, HeldStep, DatesInit, DatesStep, PTL DEF Spec

\* A failure in the preferences is never what ends the process.
THEOREM PreferencesNeverRefuse == Spec => []RefusedByTestOnly
<1>1. Init => RefusedByTestOnly
  <2>1. Init => refusal = "none"
    BY Zenon DEF Init
  <2> QED
    BY <2>1 DEF RefusedByTestOnly
<1>2. DatesInv /\ RefusedByTestOnly /\ [Next]_vars => RefusedByTestOnly'
  <2> SUFFICES ASSUME DatesInv, RefusedByTestOnly, [Next]_vars PROVE RefusedByTestOnly'
    OBVIOUS
  <2>1. CASE Launch
    BY <2>1 DEF Launch, DatesInv, RefusedByTestOnly
  <2>2. CASE GiveUp \/ Open
    BY <2>2 DEF GiveUp, Open, RefusedByTestOnly
  <2>3. CASE \/ \E c \in untried : Try(c)
             \/ Search \/ Save \/ Release \/ Killed \/ Upgraded
             \/ \E d \in {0, 90} : Feed(d)
             \/ UNCHANGED vars
    BY <2>3 DEF Try, Search, Save, Release, Killed, Upgraded, Feed, vars, RefusedByTestOnly
  <2> QED
    BY <2>1, <2>2, <2>3 DEF Next
<1> QED
  BY <1>1, <1>2, TypeInit, TypeStep, HeldInit, HeldStep, DatesInit, DatesStep, PTL DEF Spec
-----------------------------------------------------------------------------
\* What the result is worth.

LEMMA ResultInit == Init => ResultInv
<1>1. Init => phase = "off"
  BY Zenon DEF Init
<1> QED
  BY <1>1, PrefsInit DEF ResultInv

LEMMA ResultStep == TypeOK /\ DatesInv /\ ResultInv /\ [Next]_vars => ResultInv'
<1> SUFFICES ASSUME TypeOK, DatesInv, ResultInv, [Next]_vars PROVE ResultInv'
  OBVIOUS
<1> USE DEF installed
\* A step that leaves the preferences and what is installed alone.
<1>a. ASSUME UNCHANGED <<phone, sdk, version, prefs, unnoticed>>,
             phase' = "save" \/ (phase' = "release" /\ found')
               => <<mEncoderName', mEncoderColorFormat'>> \in phone.usable,
             phase' \in {"opening", "running"}
               => unnoticed \/ <<mEncoderName', mEncoderColorFormat'>> \in phone.usable
      PROVE  ResultInv'
  BY <1>a DEF ResultInv, checkTestNeeded
<1>1. CASE Launch
  BY <1>1, <1>a DEF Launch, ResultInv
<1>2. ASSUME NEW c \in untried, Try(c) PROVE ResultInv'
  BY <1>2, <1>a DEF Try
<1>3. CASE Search
  BY <1>3, <1>a DEF Search, DatesInv
<1>4. CASE Save
  <2>1. /\ <<mEncoderName, mEncoderColorFormat>> \in phone.usable
        /\ UNCHANGED <<phone, sdk, version, mEncoderName, mEncoderColorFormat>>
        /\ phase' = "release"
    BY <1>4 DEF Save, ResultInv
  <2>2. CASE prefs' = prefs /\ UNCHANGED unnoticed
    BY <2>1, <2>2, <1>a
  <2>3. CASE prefs' = Saved(TRUE)
    <3>1. prefs'.encoderName = mEncoderName /\ prefs'.colorFormat = mEncoderColorFormat
      BY <2>3, SavedType
    <3> QED
      BY <2>1, <3>1 DEF ResultInv
  <2> QED
    BY <1>4, <2>2, <2>3 DEF Save, saveTestResult
<1>5. CASE Release
  BY <1>5, <1>a DEF Release, ResultInv
<1>6. CASE GiveUp
  <2>1. phase' = "dead" /\ UNCHANGED <<phone, sdk, version, unnoticed>>
    BY <1>6 DEF GiveUp
  <2>2. CASE prefs' = prefs
    BY <2>1, <2>2, <1>a
  <2>3. CASE prefs' = Saved(FALSE)
    BY <2>1, <2>3, SavedType DEF ResultInv
  <2> QED
    BY <1>6, <2>2, <2>3 DEF GiveUp, saveTestResult
<1>7. CASE Open
  BY <1>7, <1>a DEF Open, ResultInv
<1>8. ASSUME NEW d \in {0, 90}, Feed(d) PROVE ResultInv'
  BY <1>8, <1>a DEF Feed, ResultInv
<1>9. CASE Killed
  BY <1>9, <1>a DEF Killed
<1>10. CASE Upgraded
  <2>1. phase' = "off" /\ prefs' = prefs
    BY <1>10 DEF Upgraded, testVars
  <2>2. CASE sdk' = sdk + 1 /\ UNCHANGED <<version, unnoticed>>
    <3>1. checkTestNeeded'
      BY <2>1, <2>2 DEF DatesInv, TypeOK, Preferences, checkTestNeeded
    <3> QED
      BY <2>1, <3>1 DEF ResultInv
  <2>3. CASE unnoticed'
    BY <2>1, <2>3 DEF ResultInv
  <2>4. CASE version' = version + 1 /\ UNCHANGED <<phone, sdk, unnoticed>>
    <3>1. checkTestNeeded'
      BY <2>1, <2>4 DEF DatesInv, TypeOK, Preferences, checkTestNeeded
    <3> QED
      BY <2>1, <3>1 DEF ResultInv
  <2> QED
    BY <1>10, <2>2, <2>3, <2>4 DEF Upgraded
<1>11. CASE UNCHANGED vars
  BY <1>11, <1>a DEF vars, testVars, ResultInv
<1> QED
  BY <1>1, <1>2, <1>3, <1>4, <1>5, <1>6, <1>7, <1>8, <1>9, <1>10, <1>11 DEF Next

\* The encoder in use, tested or restored, works on this phone, unless its encoders
\* changed under the same release.
THEOREM EncoderInUseWorks == Spec => []ResultInForce
<1>1. ResultInv => ResultInForce
  BY DEF ResultInv, ResultInForce
<1> QED
  BY <1>1, TypeInit, TypeStep, HeldInit, HeldStep, DatesInit, DatesStep, ResultInit,
     ResultStep, PTL DEF Spec
-----------------------------------------------------------------------------
\* Quotients and rests: the arithmetic of the loops of rotation and conversion.

\* Products of natural numbers.
LEMMA Times ==
  ASSUME NEW x \in Nat, NEW y \in Nat
  PROVE  x * y \in Nat
OBVIOUS

LEMMA TimesGrows ==
  ASSUME NEW q \in Nat, NEW s \in Nat, NEW b \in Nat, q < s
  PROVE  q * b + b <= s * b
<1>1. PICK t \in Nat : s = q + 1 + t
  <2>1. s - q - 1 \in Nat
    OBVIOUS
  <2> QED
    BY <2>1, s = q + 1 + (s - q - 1)
<1>2. s * b = q * b + b + t * b
  BY <1>1
<1>3. t * b \in Nat
  BY Times
<1> QED
  BY <1>2, <1>3

\* Quotient and rest, of a variable divisor.
LEMMA Quotient ==
  ASSUME NEW n \in Nat, NEW b \in Nat, b > 0
  PROVE  /\ n \div b \in Nat /\ n % b \in 0 .. b - 1
         /\ n = (n \div b) * b + (n % b)
<1>1. n % b \in 0 .. b - 1
  OBVIOUS
<1>2. n \div b \in Nat
  OBVIOUS
<1>3. n = b * (n \div b) + (n % b)
  OBVIOUS
<1>4. b * (n \div b) = (n \div b) * b
  BY <1>2
<1> QED
  BY <1>1, <1>2, <1>3, <1>4

LEMMA DivMod ==
  ASSUME NEW q \in Nat, NEW b \in Nat, NEW r \in 0 .. b - 1
  PROVE  (q * b + r) \div b = q /\ (q * b + r) % b = r
<1> DEFINE n == q * b + r
           s == n \div b
<1>0. b > 0
  OBVIOUS
<1>1. q * b \in Nat
  BY Times
<1>2. n \in Nat
  BY <1>1
<1>3. s \in Nat /\ n % b \in 0 .. b - 1 /\ n = s * b + (n % b)
  BY <1>0, <1>2, Quotient
<1>4. s * b \in Nat
  BY <1>3, Times
<1> HIDE DEF s
<1>5. ~(s < q)
  BY <1>1, <1>3, <1>4, TimesGrows
<1>6. ~(q < s)
  BY <1>1, <1>3, <1>4, TimesGrows
<1>7. s = q
  BY <1>3, <1>5, <1>6
<1> QED
  BY <1>1, <1>3, <1>7 DEF s

\* The rest, of what is below twice the divisor.
LEMMA ModOnce ==
  ASSUME NEW p \in Nat, NEW n \in 0 .. p - 1
  PROVE  n % p = n /\ (p + n) % p = n
<1> DEFINE s == n \div p
           t == (p + n) \div p
<1>1. s \in Nat /\ n % p \in 0 .. p - 1 /\ n = s * p + (n % p)
  BY Quotient
<1>2. t \in Nat /\ (p + n) % p \in 0 .. p - 1 /\ p + n = t * p + ((p + n) % p)
  BY Quotient
<1> HIDE DEF s, t
<1>3. ASSUME NEW q \in Nat, q > 0 PROVE q * p >= p
  <2>1. (q - 1) * p \in Nat
    BY <1>3, Times
  <2>2. q * p = (q - 1) * p + p
    BY <1>3
  <2> QED
    BY <2>1, <2>2
<1>4. ASSUME NEW q \in Nat, q > 1 PROVE q * p >= 2 * p
  <2>1. (q - 2) * p \in Nat
    BY <1>4, Times
  <2>2. q * p = (q - 2) * p + 2 * p
    BY <1>4
  <2> QED
    BY <2>1, <2>2
<1>5. s = 0
  BY <1>1, <1>3
<1>6. t = 1
  <2>1. ~(t > 1)
    BY <1>2, <1>4
  <2>2. t # 0
    BY <1>2
  <2> QED
    BY <1>2, <2>1, <2>2
<1> QED
  BY <1>1, <1>2, <1>5, <1>6

\* The row of a byte, of a rows of b.
LEMMA QuotientBelow ==
  ASSUME NEW a \in Nat, NEW b \in Nat, NEW n \in 0 .. a * b - 1
  PROVE  b > 0 /\ n \div b \in 0 .. a - 1
<1>0. b > 0
  <2>1. b = 0 => a * b = 0
    OBVIOUS
  <2> QED
    BY <2>1
<1>1. n \div b \in Nat /\ n % b \in 0 .. b - 1 /\ n = (n \div b) * b + (n % b)
  BY <1>0, Quotient
<1>2. a * b \in Nat /\ (n \div b) * b \in Nat
  BY <1>1, Times
<1>3. ~(a < n \div b)
  BY <1>1, <1>2, TimesGrows
<1>4. a # n \div b
  BY <1>1, <1>2
<1> QED
  BY <1>0, <1>1, <1>3, <1>4

\* How many pairs of chroma bytes a picture has.
Quads(w, h) == (w \div 2) * (h \div 2)

\* Luma, chroma and what half and quarter of them are.
LEMMA Sizes ==
  ASSUME NEW w \in Nat, NEW h \in Nat, w % 2 = 0, h % 2 = 0
  PROVE  /\ w \div 2 \in Nat /\ h \div 2 \in Nat
         /\ w = 2 * (w \div 2) /\ h = 2 * (h \div 2)
         /\ Quads(w, h) \in Nat
         /\ w * h = 4 * Quads(w, h)
         /\ (w * h) \div 4 = Quads(w, h)
         /\ Bytes(w, h) = 0 .. 6 * Quads(w, h) - 1
<1> DEFINE a == w \div 2
           b == h \div 2
           p == a * b
<1>1. a \in Nat /\ b \in Nat /\ w = 2 * a /\ h = 2 * b
  OBVIOUS
<1> HIDE DEF a, b
<1>2. p \in Nat
  BY <1>1, Times
<1>3. w * h = 4 * p
  BY <1>1
<1>4. (3 * w * h) = 12 * p
  BY <1>1
<1> HIDE DEF p
<1>5. (w * h) \div 4 = p
  BY <1>2, <1>3
<1>6. (3 * w * h) \div 2 = 6 * p
  BY <1>2, <1>4
<1>7. Bytes(w, h) = 0 .. 6 * p - 1
  BY <1>6 DEF Bytes
<1> QED
  BY <1>1, <1>2, <1>3, <1>5, <1>7 DEF a, b, p, Quads

\* Every byte of the chroma is in one of p pairs, after 4 * p bytes of luma.
LEMMA Pairs ==
  ASSUME NEW p \in Nat, NEW i \in 0 .. 6 * p - 1, i >= 4 * p
  PROVE  \E n \in 0 .. p - 1, e \in {0, 1} : i = 4 * p + 2 * n + e
<1> DEFINE k == i - 4 * p
           n == k \div 2
           e == k % 2
<1>1. k \in Nat /\ k < 2 * p /\ i = 4 * p + k
  OBVIOUS
<1> HIDE DEF k
<1>2. n \in Nat /\ e \in {0, 1} /\ k = 2 * n + e
  BY <1>1
<1> HIDE DEF n, e
<1>3. n < p
  BY <1>1, <1>2
<1>4. n \in 0 .. p - 1 /\ i = 4 * p + 2 * n + e
  BY <1>1, <1>2, <1>3
<1> QED
  BY <1>2, <1>4

\* A byte of the n-th pair of chroma, after 4 * p bytes of luma.
LEMMA PairIndex ==
  ASSUME NEW p \in Nat, NEW n \in Nat, NEW e \in {0, 1}
  PROVE  /\ (4 * p + 2 * n + e) % 2 = e
         /\ (4 * p + 2 * n + e - 4 * p) % 2 = e
         /\ (4 * p + 2 * n + e - 4 * p) \div 2 = n
<1>1. 4 * p + 2 * n + e - 4 * p = 2 * n + e
  OBVIOUS
<1>2. (2 * n + e) % 2 = e /\ (2 * n + e) \div 2 = n
  OBVIOUS
<1>3. (4 * p + 2 * n + e) % 2 = e
  OBVIOUS
<1> QED
  BY <1>1, <1>2, <1>3

\* What stands at the n-th pair of the chroma of an interleaved picture.
Chroma(w, h, turned, plane, n) ==
  LET at == Across(w, h, turned) \div 2
  IN  Seen(plane, n \div at, n % at, w \div 2, h \div 2, turned)

LEMMA InterleavedAt ==
  ASSUME NEW w \in Nat, NEW h \in Nat, w % 2 = 0, h % 2 = 0, NEW turned,
         NEW first, NEW second
  PROVE  \A n \in 0 .. Quads(w, h) - 1, e \in {0, 1} :
           Interleaved(w, h, turned, first, second)[4 * Quads(w, h) + 2 * n + e]
             = Chroma(w, h, turned, IF e = 0 THEN first ELSE second, n)
<1> DEFINE p == Quads(w, h)
<1>1. p \in Nat /\ w * h = 4 * p /\ Bytes(w, h) = 0 .. 6 * p - 1
  BY Sizes
<1> HIDE DEF p
<1> SUFFICES ASSUME NEW n \in 0 .. p - 1, NEW e \in {0, 1}
             PROVE  Interleaved(w, h, turned, first, second)[4 * p + 2 * n + e]
                      = Chroma(w, h, turned, IF e = 0 THEN first ELSE second, n)
  BY DEF p
<1> DEFINE i == 4 * p + 2 * n + e
<1>2. i \in Bytes(w, h) /\ ~(i < w * h)
  BY <1>1
<1>3. i % 2 = e /\ (i - w * h) \div 2 = n
  BY <1>1, PairIndex
<1> HIDE DEF i
<1>4. Interleaved(w, h, turned, first, second)[i]
        = Chroma(w, h, turned, IF e = 0 THEN first ELSE second, n)
  BY <1>2, <1>3 DEF Interleaved, Chroma
<1> QED
  BY <1>4 DEF i

\* For a semi-planar encoder convert() exchanges U and V, and nothing else.
LEMMA UVSwapped ==
  ASSUME NEW w \in Nat, NEW h \in Nat, w % 2 = 0, h % 2 = 0, NEW turned
  PROVE  convert(Interleaved(w, h, turned, "v", "u"), w * h, FALSE)
           = Interleaved(w, h, turned, "u", "v")
<1> DEFINE p == Quads(w, h)
           pic == Interleaved(w, h, turned, "v", "u")
           want == Interleaved(w, h, turned, "u", "v")
<1>1. p \in Nat /\ w * h = 4 * p /\ Bytes(w, h) = 0 .. 6 * p - 1
  BY Sizes
<1>2. /\ DOMAIN pic = Bytes(w, h)
      /\ want = [i \in Bytes(w, h) |-> want[i]]
  BY DEF Interleaved
<1>3. \A n \in 0 .. p - 1, e \in {0, 1} :
         pic[4 * p + 2 * n + e] = Chroma(w, h, turned, IF e = 0 THEN "v" ELSE "u", n)
  BY InterleavedAt
<1>4. \A n \in 0 .. p - 1, e \in {0, 1} :
         want[4 * p + 2 * n + e] = Chroma(w, h, turned, IF e = 0 THEN "u" ELSE "v", n)
  BY InterleavedAt
<1>5. \A i \in Bytes(w, h) : i < w * h => want[i] = pic[i]
  BY DEF Interleaved
<1> HIDE DEF p, pic, want
<1>6. ASSUME NEW i \in Bytes(w, h)
      PROVE  want[i] = IF i - w * h < 0 THEN pic[i]
                       ELSE pic[IF (i - w * h) % 2 = 0 THEN i + 1 ELSE i - 1]
  <2>1. CASE i < w * h
    BY <1>1, <1>5, <2>1
  <2>2. CASE i >= w * h
    <3>1. PICK n \in 0 .. p - 1, e \in {0, 1} : i = 4 * p + 2 * n + e
      BY <1>1, <2>2, Pairs
    <3>2. (i - w * h) % 2 = e
      BY <1>1, <3>1, PairIndex
    <3>3. CASE e = 0
      <4>1. (IF (i - w * h) % 2 = 0 THEN i + 1 ELSE i - 1) = 4 * p + 2 * n + 1
        BY <1>1, <3>1, <3>2, <3>3
      <4>2. want[4 * p + 2 * n + 0] = pic[4 * p + 2 * n + 1]
        BY <1>3, <1>4
      <4> QED
        BY <1>1, <2>2, <3>1, <3>3, <4>1, <4>2
    <3>4. CASE e = 1
      <4>1. (IF (i - w * h) % 2 = 0 THEN i + 1 ELSE i - 1) = 4 * p + 2 * n + 0
        BY <1>1, <3>1, <3>2, <3>4
      <4>2. want[4 * p + 2 * n + 1] = pic[4 * p + 2 * n + 0]
        BY <1>3, <1>4
      <4> QED
        BY <1>1, <2>2, <3>1, <3>4, <4>1, <4>2
    <3> QED
      BY <3>3, <3>4
  <2> QED
    BY <1>1, <2>1, <2>2
<1>7. convert(pic, w * h, FALSE) = want
  BY <1>2, <1>6 DEF convert
<1> QED
  BY <1>7 DEF pic, want

\* What stands at the n-th byte of each plane of chroma.
LEMMA ApartAt ==
  ASSUME NEW w \in Nat, NEW h \in Nat, w % 2 = 0, h % 2 = 0, NEW turned
  PROVE  \A n \in 0 .. Quads(w, h) - 1 :
           /\ Apart(w, h, turned)[4 * Quads(w, h) + n] = Chroma(w, h, turned, "u", n)
           /\ Apart(w, h, turned)[5 * Quads(w, h) + n] = Chroma(w, h, turned, "v", n)
<1> DEFINE p == Quads(w, h)
<1>1. p \in Nat /\ w * h = 4 * p /\ (w * h) \div 4 = p /\ Bytes(w, h) = 0 .. 6 * p - 1
  BY Sizes
<1> HIDE DEF p
<1> SUFFICES ASSUME NEW n \in 0 .. p - 1
             PROVE  /\ Apart(w, h, turned)[4 * p + n] = Chroma(w, h, turned, "u", n)
                    /\ Apart(w, h, turned)[5 * p + n] = Chroma(w, h, turned, "v", n)
  BY DEF p
<1>2. n % p = n /\ (p + n) % p = n
  BY <1>1, ModOnce
<1> DEFINE i == 4 * p + n
           j == 5 * p + n
<1>3. i \in Bytes(w, h) /\ ~(i < w * h) /\ i - w * h = n
  BY <1>1
<1>4. j \in Bytes(w, h) /\ ~(j < w * h) /\ j - w * h = p + n
  BY <1>1
<1>5. n < (w * h) \div 4 /\ ~(p + n < (w * h) \div 4)
  BY <1>1
<1>6. n % ((w * h) \div 4) = n /\ (p + n) % ((w * h) \div 4) = n
  BY <1>1, <1>2
<1> HIDE DEF i, j
<1>7. Apart(w, h, turned)[i] = Chroma(w, h, turned, "u", n)
  BY <1>3, <1>5, <1>6 DEF Apart, Chroma
<1>8. Apart(w, h, turned)[j] = Chroma(w, h, turned, "v", n)
  BY <1>4, <1>5, <1>6 DEF Apart, Chroma
<1> QED
  BY <1>7, <1>8 DEF i, j

\* For a planar encoder convert() takes U and V apart.
LEMMA UVSplit ==
  ASSUME NEW w \in Nat, NEW h \in Nat, w % 2 = 0, h % 2 = 0, NEW turned
  PROVE  convert(Interleaved(w, h, turned, "v", "u"), w * h, TRUE) = Apart(w, h, turned)
<1> DEFINE p == Quads(w, h)
           pic == Interleaved(w, h, turned, "v", "u")
           want == Apart(w, h, turned)
<1>1. p \in Nat /\ w * h = 4 * p /\ (w * h) \div 4 = p /\ Bytes(w, h) = 0 .. 6 * p - 1
  BY Sizes
<1>2. /\ DOMAIN pic = Bytes(w, h)
      /\ want = [i \in Bytes(w, h) |-> want[i]]
  BY DEF Interleaved, Apart
<1>3. \A n \in 0 .. p - 1, e \in {0, 1} :
         pic[4 * p + 2 * n + e] = Chroma(w, h, turned, IF e = 0 THEN "v" ELSE "u", n)
  BY InterleavedAt
<1>4. \A n \in 0 .. p - 1 : /\ want[4 * p + n] = Chroma(w, h, turned, "u", n)
                            /\ want[5 * p + n] = Chroma(w, h, turned, "v", n)
  BY ApartAt
<1>5. \A i \in Bytes(w, h) : i < w * h => want[i] = pic[i]
  BY DEF Interleaved, Apart
<1> HIDE DEF p, pic, want
<1>6. ASSUME NEW i \in Bytes(w, h)
      PROVE  want[i] = IF i - 4 * p < 0 THEN pic[i]
                       ELSE IF i - 4 * p < p THEN pic[4 * p + 2 * (i - 4 * p) + 1]
                       ELSE pic[4 * p + 2 * (i - 4 * p - p)]
  <2>1. CASE i < 4 * p
    BY <1>1, <1>5, <2>1
  <2>2. CASE i >= 4 * p /\ i < 5 * p
    <3>1. PICK n \in 0 .. p - 1 : i = 4 * p + n
      BY <1>1, <2>2, i - 4 * p \in 0 .. p - 1
    <3>2. want[4 * p + n] = pic[4 * p + 2 * n + 1]
      BY <1>3, <1>4
    <3>3. i - 4 * p = n
      BY <1>1, <3>1
    <3> QED
      BY <1>1, <3>1, <3>2, <3>3
  <2>3. CASE i >= 5 * p
    <3>1. PICK n \in 0 .. p - 1 : i = 5 * p + n
      BY <1>1, <2>3, i - 5 * p \in 0 .. p - 1
    <3>2. want[5 * p + n] = pic[4 * p + 2 * n + 0]
      BY <1>3, <1>4
    <3>3. i - 4 * p = p + n /\ i - 4 * p - p = n /\ 4 * p + 2 * n + 0 = 4 * p + 2 * n
      BY <1>1, <3>1
    <3> QED
      BY <1>1, <3>1, <3>2, <3>3
  <2> QED
    BY <1>1, <2>1, <2>2, <2>3
<1>7. convert(pic, 4 * p, TRUE) = want
  <2>1. (4 * p) \div 4 = p
    BY <1>1
  <2> QED
    BY <1>2, <1>6, <2>1 DEF convert
<1> QED
  BY <1>1, <1>7 DEF pic, want

\* The rotation: every byte of the picture turned comes from where the scene has it.
LEMMA Rotated ==
  ASSUME NEW w \in Nat, NEW h \in Nat, w % 2 = 0, h % 2 = 0
  PROVE  rotateNV21Degree90(Taken(w, h), w, h) = Interleaved(w, h, TRUE, "v", "u")
<1> DEFINE p == Quads(w, h)
           a == w \div 2
           b == h \div 2
           pic == Taken(w, h)
           want == Interleaved(w, h, TRUE, "v", "u")
<1>1. p \in Nat /\ w * h = 4 * p /\ Bytes(w, h) = 0 .. 6 * p - 1
  BY Sizes
<1>a. a \in Nat /\ b \in Nat /\ w = 2 * a /\ h = 2 * b /\ p = a * b
  BY Sizes DEF Quads
<1>2. want = [i \in Bytes(w, h) |-> want[i]]
  BY DEF Interleaved
<1>3. \A n \in 0 .. p - 1, e \in {0, 1} :
         pic[4 * p + 2 * n + e] = <<IF e = 0 THEN "v" ELSE "u", n \div a, n % a>>
  <2>1. \A n \in 0 .. p - 1, e \in {0, 1} :
          pic[4 * p + 2 * n + e] = Chroma(w, h, FALSE, IF e = 0 THEN "v" ELSE "u", n)
    <3>1. ASSUME NEW t
          PROVE  \A n \in 0 .. p - 1, e \in {0, 1} :
                   Interleaved(w, h, t, "v", "u")[4 * p + 2 * n + e]
                     = Chroma(w, h, t, IF e = 0 THEN "v" ELSE "u", n)
      BY InterleavedAt
    <3> QED
      BY <3>1, Zenon DEF Taken
  <2> HIDE DEF p, pic
  <2> QED
    BY <2>1 DEF Chroma, Across, Seen
<1>4. \A n \in 0 .. p - 1, e \in {0, 1} :
         want[4 * p + 2 * n + e]
           = <<IF e = 0 THEN "v" ELSE "u", b - 1 - (n % b), n \div b>>
  <2>1. \A n \in 0 .. p - 1, e \in {0, 1} :
          want[4 * p + 2 * n + e] = Chroma(w, h, TRUE, IF e = 0 THEN "v" ELSE "u", n)
    <3>1. ASSUME NEW t
          PROVE  \A n \in 0 .. p - 1, e \in {0, 1} :
                   Interleaved(w, h, t, "v", "u")[4 * p + 2 * n + e]
                     = Chroma(w, h, t, IF e = 0 THEN "v" ELSE "u", n)
      BY InterleavedAt
    <3> QED
      BY <3>1, Zenon
  <2> HIDE DEF p, want
  <2> QED
    BY <2>1 DEF Chroma, Across, Seen
<1>5. \A i \in 0 .. 4 * p - 1 : /\ pic[i] = <<"y", i \div w, i % w>>
                                /\ want[i] = <<"y", h - 1 - (i % h), i \div h>>
  <2>1. \A i \in 0 .. 4 * p - 1 : i \in Bytes(w, h) /\ i < w * h
    BY <1>1
  <2> HIDE DEF p
  <2> QED
    BY <2>1 DEF Interleaved, Taken, Across, Seen
<1> HIDE DEF p, a, b, pic, want
<1>6. ASSUME NEW i \in 0 .. 4 * p - 1
      PROVE  want[i] = pic[(h - 1 - (i % h)) * w + i \div h]
  <2> DEFINE q == i \div h
             r == i % h
             j == (h - 1 - r) * w + q
  <2>1. h > 0 /\ q \in 0 .. w - 1
    BY <1>1, QuotientBelow
  <2>2. r \in 0 .. h - 1
    BY <2>1, Quotient
  <2> HIDE DEF q, r
  <2>3. h - 1 - r \in Nat /\ (h - 1 - r) * w + w <= h * w
    BY <2>2, TimesGrows
  <2>4. (h - 1 - r) * w \in Nat /\ h * w = 4 * p
    BY <1>1, <2>3, Times
  <2>5. j \in 0 .. 4 * p - 1
    BY <1>1, <2>1, <2>3, <2>4
  <2>6. j \div w = h - 1 - r /\ j % w = q
    BY <2>1, <2>3, DivMod
  <2> HIDE DEF j
  <2>7. want[i] = pic[j]
    BY <1>5, <2>5, <2>6 DEF q, r
  <2> QED
    BY <2>7 DEF q, r, j
<1>7. ASSUME NEW n \in 0 .. p - 1, NEW e \in {0, 1}
      PROVE  want[4 * p + 2 * n + e]
               = pic[4 * p + 2 * ((b - 1 - (n % b)) * a + n \div b) + e]
  <2> DEFINE x == n \div b
             y == n % b
             m == (b - 1 - y) * a + x
  <2>1. b > 0 /\ x \in 0 .. a - 1
    BY <1>a, QuotientBelow
  <2>2. y \in 0 .. b - 1
    BY <1>a, <2>1, Quotient
  <2> HIDE DEF x, y
  <2>3. b - 1 - y \in Nat /\ (b - 1 - y) * a + a <= b * a
    BY <1>a, <2>2, TimesGrows
  <2>4. (b - 1 - y) * a \in Nat /\ b * a = p
    BY <1>a, <2>3, Times
  <2>5. m \in 0 .. p - 1
    BY <1>1, <1>a, <2>1, <2>3, <2>4
  <2>6. m \div a = b - 1 - y /\ m % a = x
    BY <1>a, <2>1, <2>3, DivMod
  <2> HIDE DEF m
  <2>7. want[4 * p + 2 * n + e] = pic[4 * p + 2 * m + e]
    BY <1>3, <1>4, <2>5, <2>6 DEF x, y
  <2> QED
    BY <2>7 DEF x, y, m
<1>8. ASSUME NEW n \in 0 .. p - 1, NEW e \in {0, 1}, NEW k, k = 6 * p - 1 - (4 * p + 2 * n + e)
      PROVE  want[4 * p + 2 * n + e]
               = pic[4 * p + ((k \div 2) % b) * w
                       + w - 1 - 2 * ((k \div 2) \div b) - (k % 2)]
  <2> DEFINE x == n \div b
             y == n % b
             m == p - 1 - n
  <2>1. b > 0 /\ x \in 0 .. a - 1
    BY <1>a, QuotientBelow
  <2>2. y \in 0 .. b - 1 /\ n = x * b + y
    BY <1>a, <2>1, Quotient
  <2> HIDE DEF x, y
  <2>3. k \div 2 = m /\ k % 2 = 1 - e
    <3>1. k = 2 * m + (1 - e) /\ m \in Nat /\ 1 - e \in {0, 1}
      BY <1>1, <1>8
    <3> HIDE DEF m
    <3> QED
      BY <3>1
  <2>4. m \div b = a - 1 - x /\ m % b = b - 1 - y
    <3>1. a - 1 - x \in Nat /\ b - 1 - y \in 0 .. b - 1
      BY <1>a, <2>1, <2>2
    <3>2. m = (a - 1 - x) * b + (b - 1 - y)
      BY <1>a, <2>1, <2>2
    <3> HIDE DEF m
    <3> QED
      BY <1>a, <3>1, <3>2, DivMod
  <2> HIDE DEF m
  <2>5. 4 * p + (b - 1 - y) * w + w - 1 - 2 * (a - 1 - x) - (1 - e)
          = 4 * p + 2 * ((b - 1 - y) * a + x) + e
    BY <1>1, <1>a, <2>1, <2>2
  <2> QED
    BY <1>7, <2>3, <2>4, <2>5 DEF x, y
<1>9. ASSUME NEW i \in Bytes(w, h)
      PROVE  want[i] =
               IF i < 4 * p THEN pic[(h - 1 - (i % h)) * w + i \div h]
               ELSE LET k == 6 * p - 1 - i
                    IN  pic[4 * p + ((k \div 2) % b) * w
                              + w - 1 - 2 * ((k \div 2) \div b) - (k % 2)]
  <2>1. CASE i < 4 * p
    <3>0. i \in 0 .. 4 * p - 1
      BY <1>1, <2>1
    <3>1. want[i] = pic[(h - 1 - (i % h)) * w + i \div h]
      BY <1>6, <3>0, Zenon
    <3> QED
      BY <2>1, <3>1, Zenon
  <2>2. CASE i >= 4 * p
    <3>1. PICK n \in 0 .. p - 1, e \in {0, 1} : i = 4 * p + 2 * n + e
      BY <1>1, <2>2, Pairs
    <3>2. \A k : k = 6 * p - 1 - i =>
            want[i] = pic[4 * p + ((k \div 2) % b) * w
                              + w - 1 - 2 * ((k \div 2) \div b) - (k % 2)]
      BY <1>8, <3>1
    <3>3. ~(i < 4 * p)
      BY <1>1, <2>2
    <3> QED
      BY <3>2, <3>3
  <2> QED
    BY <1>1, <2>1, <2>2
<1>10. (3 * w * h) \div 2 = 6 * p
  <2>1. 3 * w * h = 12 * p
    BY <1>1
  <2> QED
    BY <1>1, <2>1
<1>11. rotateNV21Degree90(pic, w, h) = want
  <2>1. rotateNV21Degree90(pic, w, h) =
          [i \in Bytes(w, h) |->
             IF i < 4 * p THEN pic[(h - 1 - (i % h)) * w + i \div h]
             ELSE LET k == 6 * p - 1 - i
                  IN  pic[4 * p + ((k \div 2) % b) * w
                            + w - 1 - 2 * ((k \div 2) \div b) - (k % 2)]]
    BY <1>1, <1>10, Zenon DEF rotateNV21Degree90, b
  <2> QED
    BY <1>2, <1>9, <2>1
<1> QED
  BY <1>11 DEF pic, want

\* Rotated or not, the picture is converted to what the encoder's format wants.
LEMMA ConvertedAsWanted ==
  ASSUME NEW planar \in BOOLEAN
  PROVE  /\ convert(Taken(Width, Height), Width * Height, planar)
              = Wanted(Width, Height, FALSE, planar)
         /\ convert(rotateNV21Degree90(Taken(Width, Height), Width, Height),
                    Width * Height, planar)
              = Wanted(Width, Height, TRUE, planar)
<1>1. Width \in Nat /\ Height \in Nat /\ Width % 2 = 0 /\ Height % 2 = 0
  BY EncoderTestAssumption
<1>2. ASSUME NEW turned
      PROVE  /\ convert(Interleaved(Width, Height, turned, "v", "u"), Width * Height, TRUE)
                  = Apart(Width, Height, turned)
             /\ convert(Interleaved(Width, Height, turned, "v", "u"), Width * Height, FALSE)
                  = Interleaved(Width, Height, turned, "u", "v")
  BY <1>1, UVSwapped, UVSplit
<1>3. rotateNV21Degree90(Taken(Width, Height), Width, Height)
        = Interleaved(Width, Height, TRUE, "v", "u")
  BY <1>1, Rotated
<1>4. CASE planar = TRUE
  BY <1>2, <1>3, <1>4, Zenon DEF Taken, Wanted
<1>5. CASE planar = FALSE
  BY <1>2, <1>3, <1>5, Zenon DEF Taken, Wanted
<1> QED
  BY <1>4, <1>5
-----------------------------------------------------------------------------
\* What is fed to the encoder.

\* The convertor is one for the format in use, and so is the one in the preferences.
ConvertorInv ==
  /\ mPlanar <=> mEncoderColorFormat \in Planar
  /\ prefs.success => (prefs.planar <=> prefs.colorFormat \in Planar)
  /\ fed # NoPicture => phase = "running"

LEMMA ConvertorInit == Init => ConvertorInv /\ FedAsWanted
<1> SUFFICES ASSUME Init PROVE ConvertorInv /\ FedAsWanted
  OBVIOUS
<1>1. mPlanar = FALSE /\ mEncoderColorFormat = "0" /\ fed = NoPicture
  BY Zenon DEF Init
<1>2. "0" \notin Planar
  BY DEF Planar
<1> QED
  BY <1>1, <1>2, PrefsInit DEF ConvertorInv, FedAsWanted

LEMMA SavedPlanar ==
  /\ Saved(TRUE).success /\ Saved(TRUE).planar = mPlanar
  /\ Saved(TRUE).colorFormat = mEncoderColorFormat
BY DEF Saved, Success

LEMMA ConvertorStep ==
  TypeOK /\ ConvertorInv /\ FedAsWanted /\ [Next]_vars => ConvertorInv' /\ FedAsWanted'
<1> SUFFICES ASSUME TypeOK, ConvertorInv, FedAsWanted, [Next]_vars
             PROVE  ConvertorInv' /\ FedAsWanted'
  OBVIOUS
<1> USE DEF installed
\* A step that leaves the result and the picture alone.
<1>a. ASSUME UNCHANGED <<mPlanar, mEncoderColorFormat, fed>>,
             fed # NoPicture => phase' = "running",
             prefs'.success => (prefs'.planar <=> prefs'.colorFormat \in Planar)
      PROVE  ConvertorInv' /\ FedAsWanted'
  BY <1>a DEF ConvertorInv, FedAsWanted
\* A step on the way to a result: no picture has been fed.
<1>b. ASSUME fed = NoPicture, UNCHANGED <<fed, prefs>>,
             mPlanar' <=> mEncoderColorFormat' \in Planar
      PROVE  ConvertorInv' /\ FedAsWanted'
  BY <1>b DEF ConvertorInv, FedAsWanted
<1>1. CASE Launch
  BY <1>1, <1>a, <1>b DEF Launch, ConvertorInv
<1>2. ASSUME NEW c \in untried, Try(c) PROVE ConvertorInv' /\ FedAsWanted'
  BY <1>2, <1>b DEF Try, ConvertorInv
<1>3. CASE Search
  BY <1>3, <1>a DEF Search, ConvertorInv
<1>4. CASE Save
  BY <1>4, <1>a, SavedPlanar DEF Save, saveTestResult, ConvertorInv
<1>5. CASE Release
  BY <1>5, <1>a DEF Release, ConvertorInv
<1>6. CASE GiveUp
  BY <1>6, <1>a, SavedType DEF GiveUp, saveTestResult, ConvertorInv
<1>7. CASE Open
  BY <1>7, <1>a DEF Open, ConvertorInv
<1>8. ASSUME NEW d \in {0, 90}, Feed(d) PROVE ConvertorInv' /\ FedAsWanted'
  <2>1. /\ UNCHANGED <<prefs, phase, mPlanar, mEncoderColorFormat>> /\ phase = "running"
        /\ mPlanar \in BOOLEAN
    BY <1>8 DEF Feed, TypeOK
  <2>2. ConvertorInv'
    BY <2>1 DEF ConvertorInv
  <2>3. fed'.bytes = Wanted(Width, Height, fed'.turned, mPlanar)
    <3>1. CASE d = 0
      <4>1. fed' = [turned |-> TRUE,
                    bytes |-> convert(rotateNV21Degree90(Taken(Width, Height), Width, Height),
                                      Width * Height, mPlanar)]
        BY <1>8, <3>1, Zenon DEF Feed
      <4>2. fed' = [turned |-> TRUE, bytes |-> Wanted(Width, Height, TRUE, mPlanar)]
        BY <2>1, <4>1, ConvertedAsWanted, Zenon
      <4> QED
        BY <4>2, Zenon
    <3>2. CASE d = 90
      <4>1. fed' = [turned |-> FALSE,
                    bytes |-> convert(Taken(Width, Height), Width * Height, mPlanar)]
        <5>1. d # 0
          BY <3>2
        <5> QED
          BY <1>8, <5>1, Zenon DEF Feed
      <4>2. fed' = [turned |-> FALSE, bytes |-> Wanted(Width, Height, FALSE, mPlanar)]
        BY <2>1, <4>1, ConvertedAsWanted, Zenon
      <4> QED
        BY <4>2, Zenon
    <3> QED
      BY <3>1, <3>2
  <2>4. mPlanar = (mEncoderColorFormat' \in Planar)
    BY <2>1 DEF ConvertorInv
  <2>5. FedAsWanted'
    BY <2>3, <2>4, Zenon DEF FedAsWanted
  <2> QED
    BY <2>2, <2>5
<1>9. CASE Killed
  BY <1>9 DEF Killed, ConvertorInv, FedAsWanted
<1>10. CASE Upgraded
  BY <1>10, <1>a DEF Upgraded, testVars, ConvertorInv
<1>11. CASE UNCHANGED vars
  BY <1>11, <1>a DEF vars, testVars, ConvertorInv
<1> QED
  BY <1>1, <1>2, <1>3, <1>4, <1>5, <1>6, <1>7, <1>8, <1>9, <1>10, <1>11 DEF Next

\* Of every even width and height, turned or not, planar or not, tested or restored:
\* the encoder gets every byte of the picture where its format has it.
THEOREM PictureFedAsWanted == Spec => []FedAsWanted
  BY TypeInit, TypeStep, HeldInit, HeldStep, ConvertorInit, ConvertorStep, PTL DEF Spec
=============================================================================
