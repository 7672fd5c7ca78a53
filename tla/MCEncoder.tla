----------------------------- MODULE MCEncoder -----------------------------
(***************************************************************************)
(* Phones for EncoderTest: two AVC encoders among other codecs, of which   *)
(* some formats work, and a phone without one.                             *)
(***************************************************************************)
EXTENDS EncoderTest

Codec(name, encoder, avc, formats) ==
  [name |-> name, encoder |-> encoder, avc |-> avc, formats |-> formats]

Codecs ==
  {Codec("soft", TRUE, TRUE, {"YUV420Planar", "YUV420SemiPlanar", "Surface"}),
   Codec("hard", TRUE, TRUE, {"TI_YUV420PackedSemiPlanar", "Surface"}),
   Codec("hevc", TRUE, FALSE, {"YUV420Planar"}),
   Codec("decoder", FALSE, TRUE, {"YUV420Planar"})}

Works ==
  {{}, {<<"soft", "YUV420Planar">>},
   {<<"soft", "YUV420SemiPlanar">>, <<"hard", "TI_YUV420PackedSemiPlanar">>}}

ThePhones ==
  {[codecs |-> Codecs, usable |-> u] : u \in Works}
    \cup {[codecs |-> {c \in Codecs : ~(c.encoder /\ c.avc)}, usable |-> {}]}
=============================================================================
