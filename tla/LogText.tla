------------------------------ MODULE LogText ------------------------------
(***************************************************************************)
(* From the bytes of a pipe to the text of a log: LogTextPipeline          *)
(* (crates/logging/src/text.rs), ControlSequenceFilter (control_filter.rs) *)
(* and LogRedactor (redaction.rs).                                         *)
(*                                                                         *)
(* Bytes are numbers, a character is the sequence of its UTF-8 bytes.  The *)
(* decoders (encoding_rs) and the terminal parser (vte) are external: vte  *)
(* prints whenever the filter's own SequenceState is Ground.               *)
(***************************************************************************)
EXTENDS Naturals, Sequences, SequencesExt, FiniteSets

CONSTANTS
  CodePage,     \* external: code points of a Windows code page above ASCII
  Pipelines     \* [policy, secrets, alphabet, length]: the streams Init chooses from

Policies == {"Utf8", "CodePage", "Auto", "AutoWithoutFallback"}

ASSUME TextLimits ==
  /\ \A b \in DOMAIN CodePage : b \in 128..255 /\ CodePage[b] \in 128..65535
  /\ \A p \in Pipelines :
       p.policy \in Policies /\ p.alphabet \subseteq 1..255 /\ p.length \in Nat

VARIABLES
  pipeline,   \* the policy and the patterns, fixed when the capture is prepared
  received,   \* history: the bytes pushed so far
  decoder,    \* DecoderState
  terminal,   \* ControlSequenceFilter
  carry,      \* LogRedactor.pending
  written     \* history: the text handed to the collector

textVars == <<pipeline, received, decoder, terminal, carry, written>>

Replacement == <<239, 191, 189>>
Marker == <<0>>               \* LOG_REDACTION_MARKER, a symbol of its own here
LF == <<10>>
TAB == <<9>>
CR == <<13>>
ESC == <<27>>

(* What step says of one element after the other, from state s on. *)
Through(step(_, _), s, elements) ==
  LET upTo[i \in 0..Len(elements)] ==
        IF i = 0 THEN [state |-> s, out |-> <<>>]
        ELSE LET r == step(upTo[i - 1].state, elements[i])
             IN  [state |-> r.state, out |-> upTo[i - 1].out \o r.out]
  IN  upTo[Len(elements)]
----------------------------------------------------------------------------
(* Decoding. *)

Continuation == 128..191
Width(b) == CASE b < 128 -> 1 [] b \in 194..223 -> 2 [] b \in 224..239 -> 3
              [] b \in 240..244 -> 4 [] OTHER -> 0
Second(b) == CASE b = 224 -> 160..191 [] b = 237 -> 128..159 [] b = 240 -> 144..191
               [] b = 244 -> 128..143 [] OTHER -> Continuation

BeginsScalar(s) ==
  /\ Len(s) <= Width(s[1])
  /\ \A i \in 2..Len(s) : s[i] \in IF i = 2 THEN Second(s[1]) ELSE Continuation
WholeScalar(s) == BeginsScalar(s) /\ Len(s) = Width(s[1])

Utf8(c) == IF c < 128 THEN <<c>>
           ELSE IF c < 2048 THEN <<192 + c \div 64, 128 + (c % 64)>>
           ELSE <<224 + c \div 4096, 128 + ((c \div 64) % 64), 128 + (c % 64)>>

Decoder(encoding) == [at |-> "Decoding", encoding |-> encoding, bytes |-> <<>>, bom |-> FALSE]
Detector == [at |-> "Detecting", encoding |-> "None", bytes |-> <<>>, bom |-> TRUE]

DecodeUtf8(d, b) ==
  LET fresh == IF WholeScalar(<<b>>) THEN [state |-> [d EXCEPT !.bytes = <<>>], out |-> << <<b>> >>]
               ELSE IF BeginsScalar(<<b>>) THEN [state |-> [d EXCEPT !.bytes = <<b>>], out |-> <<>>]
               ELSE [state |-> [d EXCEPT !.bytes = <<>>], out |-> <<Replacement>>]
      s == Append(d.bytes, b)
  IN  IF d.bytes = <<>> THEN fresh
      ELSE IF WholeScalar(s) THEN [state |-> [d EXCEPT !.bytes = <<>>], out |-> <<s>>]
      ELSE IF BeginsScalar(s) THEN [state |-> [d EXCEPT !.bytes = s], out |-> <<>>]
      ELSE [fresh EXCEPT !.out = <<Replacement>> \o @]

(* One byte by a decoder that is resolved: decode_with_encoding_rs and *)
(* decode_with_oem.                                                    *)
DecodeByte(d, b) ==
  CASE d.encoding = "Utf8" -> DecodeUtf8(d, b)
    [] d.encoding \in {"Utf16Le", "Utf16Be"} ->
         IF d.bytes = <<>> THEN [state |-> [d EXCEPT !.bytes = <<b>>], out |-> <<>>]
         ELSE LET low  == IF d.encoding = "Utf16Le" THEN d.bytes[1] ELSE b
                  high == IF d.encoding = "Utf16Le" THEN b ELSE d.bytes[1]
              IN  [state |-> [d EXCEPT !.bytes = <<>>],
                   out |-> << IF high \in 216..223 THEN Replacement ELSE Utf8(256 * high + low) >>]
    [] d.encoding = "CodePage" ->
         [state |-> d, out |-> << IF b < 128 THEN <<b>>
                                  ELSE IF b \in DOMAIN CodePage THEN Utf8(CodePage[b])
                                  ELSE Replacement >>]

DecodeEnd(d) == IF d.bytes = <<>> THEN <<>> ELSE <<Replacement>>

Boms == [Utf8 |-> <<239, 187, 191>>, Utf16Le |-> <<255, 254>>, Utf16Be |-> <<254, 255>>]

(* classify_probe *)
Classify(probe, bom) ==
  IF bom /\ \E e \in DOMAIN Boms : probe = Boms[e]
    THEN [decision |-> "Bom", encoding |-> CHOOSE e \in DOMAIN Boms : probe = Boms[e]]
  ELSE [encoding |-> "Utf8",
        decision |-> IF bom /\ \E e \in DOMAIN Boms : IsPrefix(probe, Boms[e]) THEN "Pending"
                     ELSE IF WholeScalar(probe) THEN "Utf8"
                     ELSE IF BeginsScalar(probe) THEN "Pending" ELSE "Invalid"]

FallbackEncoding == IF pipeline.policy = "Auto" THEN "CodePage" ELSE "Utf8"
Replayed(encoding, probe) == Through(DecodeByte, Decoder(encoding), probe)

(* push_detecting, byte by byte: ASCII passes until something else comes. *)
DetectByte(d, b) ==
  LET probe == Append(d.bytes, b)
      c == Classify(probe, d.bom)
  IN  IF d.bytes = <<>> /\ b < 128 THEN [state |-> [d EXCEPT !.bom = FALSE], out |-> << <<b>> >>]
      ELSE CASE c.decision = "Pending" -> [state |-> [d EXCEPT !.bytes = probe], out |-> <<>>]
             [] c.decision = "Bom"     -> [state |-> Decoder(c.encoding), out |-> <<>>]
             [] c.decision = "Utf8"    -> Replayed("Utf8", probe)
             [] c.decision = "Invalid" -> Replayed(FallbackEncoding, probe)

AnyByte(d, b) == IF d.at = "Detecting" THEN DetectByte(d, b) ELSE DecodeByte(d, b)

(* finish_detecting, or the last call of the decoder. *)
LastCharacters(d) ==
  IF d.at = "Decoding" \/ d.bytes = <<>> THEN DecodeEnd(d)
  ELSE LET r == Replayed(IF Classify(d.bytes, FALSE).decision = "Invalid"
                           THEN FallbackEncoding ELSE "Utf8", d.bytes)
       IN  r.out \o DecodeEnd(r.state)
----------------------------------------------------------------------------
(* The control filter. *)

C1(n) == <<194, n>>
Printable(c) == /\ c # <<239, 187, 191>>
                /\ IF Len(c) = 1 THEN c[1] \in 32..126
                   ELSE ~(c[1] = 194 /\ c[2] \in 128..159)

(* SequenceState::advance *)
Advanced(s, c) ==
  CASE c = C1(144) -> "DcsEntry"
    [] c \in {C1(152), C1(158), C1(159)} -> "String"
    [] c = C1(155) -> "Csi"
    [] c = C1(157) -> "Osc"
    [] c \in {C1(156), <<24>>, <<26>>} -> "Ground"
    [] c = ESC -> "Escape"
    [] s = "Escape" /\ c = <<91>> -> "Csi"
    [] s = "Escape" /\ c = <<80>> -> "DcsEntry"
    [] s = "Escape" /\ c = <<93>> -> "Osc"
    [] s = "Escape" /\ c \in {<<88>>, <<94>>, <<95>>} -> "String"
    [] s = "Escape" /\ Len(c) = 1 /\ c[1] \in (48..126) \ {91, 80, 93, 88, 94, 95} -> "Ground"
    [] s = "Csi" /\ Len(c) = 1 /\ c[1] \in 64..126 -> "Ground"
    [] s = "DcsEntry" /\ Len(c) = 1 /\ c[1] \in 64..126 -> "DcsString"
    [] s = "Osc" /\ c = <<7>> -> "Ground"
    [] OTHER -> s

Owed(t) == IF t.cr THEN LF ELSE <<>>

(* One turn of the loop of push, with PlainTextPerformer. *)
FilterCharacter(t, c) ==
  LET next == [t EXCEPT !.sequence = Advanced(t.sequence, c)] IN
  IF t.sequence # "Ground" \/ next.sequence # "Ground" \/ c = C1(156)
    THEN [state |-> next, out |-> <<>>]
  ELSE IF c = CR THEN [state |-> [next EXCEPT !.cr = TRUE], out |-> Owed(t)]
  ELSE IF c = LF THEN [state |-> [next EXCEPT !.cr = FALSE], out |-> LF]
  ELSE IF c = TAB \/ Printable(c)
    THEN [state |-> [next EXCEPT !.cr = FALSE], out |-> Owed(t) \o c]
  ELSE [state |-> next, out |-> <<>>]

CleanTerminal == [sequence |-> "Ground", cr |-> FALSE]
----------------------------------------------------------------------------
(* Redaction. *)

(* normalize_secret and from_secrets *)
Projected(secret) ==
  LET chars == Through(DecodeByte, Decoder("Utf8"), secret).out
      r == Through(FilterCharacter, CleanTerminal, chars)
  IN  r.out \o Owed(r.state)
Patterns == pipeline.patterns
LongestPattern == IF Patterns = {} THEN 0
                  ELSE CHOOSE n \in {Len(p) : p \in Patterns} : \A p \in Patterns : Len(p) <= n

Boundary(s, n) == n = Len(s) \/ s[n + 1] \notin Continuation

(* longest_match_at, 0 if there is none. *)
LongestMatch(s, at) ==
  LET found == {0} \cup {Len(p) : p \in {q \in Patterns : IsPrefix(q, SubSeq(s, at + 1, Len(s)))}}
  IN  CHOOSE n \in found : \A m \in found : m <= n

(* Replaces what starts before "end"; says how far it got. *)
Replaced(s, end) ==
  LET from[at \in 0..Len(s)] ==
        IF at >= end THEN [out |-> <<>>, cursor |-> at]
        ELSE LET n == LongestMatch(s, at)
                 w == IF n > 0 THEN n ELSE Width(s[at + 1])
             IN  [from[at + w] EXCEPT !.out =
                    (IF n > 0 THEN Marker ELSE SubSeq(s, at + 1, at + w)) \o @]
  IN  from[0]

LastBoundary(s, kept) ==
  LET safe == {0} \cup {n \in 0..Len(s) : n + kept <= Len(s) /\ Boundary(s, n)}
  IN  CHOOSE n \in safe : \A m \in safe : m <= n

FaultySafeEnd(s) == LastBoundary(s, IF LongestPattern = 1 THEN 0 ELSE LongestPattern - 2)

(* How much of s can be decided before more text arrives. *)
SafeEnd(s) == LastBoundary(s, LongestPattern - 1)

Rest(s, n) == SubSeq(s, n + 1, Len(s))

(* LogRedactor::push *)
Redact(text) ==
  IF LongestPattern = 0 THEN [out |-> text, carry |-> <<>>]
  ELSE LET s == carry \o text
           r == Replaced(s, SafeEnd(s))
       IN  [out |-> r.out, carry |-> Rest(s, r.cursor)]
----------------------------------------------------------------------------
TextInit ==
  /\ pipeline \in {[policy |-> p.policy, alphabet |-> p.alphabet, length |-> p.length,
                    patterns |-> {Projected(s) : s \in p.secrets} \ {<<>>}] : p \in Pipelines}
  /\ received = <<>> /\ written = <<>> /\ carry = <<>>
  /\ decoder = CASE pipeline.policy = "Utf8" -> Decoder("Utf8")
                 [] pipeline.policy = "CodePage" -> Decoder("CodePage")
                 [] OTHER -> Detector
  /\ terminal = CleanTerminal

(* LogTextPipeline::push *)
PushBytes(chunk) ==
  LET decoded  == Through(AnyByte, decoder, chunk)
      filtered == Through(FilterCharacter, terminal, decoded.out)
      redacted == Redact(filtered.out)
  IN
  /\ decoder.at # "Finished" /\ Len(received) + Len(chunk) <= pipeline.length
  /\ received' = received \o chunk
  /\ decoder' = decoded.state /\ terminal' = filtered.state
  /\ carry' = redacted.carry /\ written' = written \o redacted.out
  /\ UNCHANGED pipeline

(* LogTextPipeline::finish *)
FinishText ==
  LET filtered == Through(FilterCharacter, terminal, LastCharacters(decoder))
      last     == carry \o filtered.out \o Owed(filtered.state)
  IN
  /\ decoder.at # "Finished"
  /\ decoder' = [decoder EXCEPT !.at = "Finished", !.bytes = <<>>]
  /\ terminal' = CleanTerminal /\ carry' = <<>>
  /\ written' = written \o Replaced(last, Len(last)).out
  /\ UNCHANGED <<pipeline, received>>

TextNext ==
  \/ \E a \in pipeline.alphabet : PushBytes(<<a>>)
  \/ \E a, b \in pipeline.alphabet : PushBytes(<<a, b>>)
  \/ FinishText

TextSpec == TextInit /\ [][TextNext]_textVars
----------------------------------------------------------------------------
(* What the whole stream says, without regard to how it arrived. *)

AsciiLength(s) == CHOOSE n \in 0..Len(s) : /\ \A i \in 1..n : s[i] < 128
                                           /\ n = Len(s) \/ s[n + 1] >= 128

WholeDecoding(encoding, s) ==
  LET r == Through(DecodeByte, Decoder(encoding), s) IN r.out \o DecodeEnd(r.state)

WholeText(s) ==
  LET tail == Rest(s, AsciiLength(s))
      marked == {e \in DOMAIN Boms : IsPrefix(Boms[e], s)}
      utf8 == \E n \in 1..Len(tail) : /\ BeginsScalar(SubSeq(tail, 1, n))
                                      /\ n = Len(tail) \/ WholeScalar(SubSeq(tail, 1, n))
      chars == CASE pipeline.policy \in {"Utf8", "CodePage"} -> WholeDecoding(pipeline.policy, s)
                 [] tail = <<>> -> WholeDecoding("Utf8", s)
                 [] marked # {} -> LET e == CHOOSE e \in marked : TRUE
                                   IN  WholeDecoding(e, Rest(s, Len(Boms[e])))
                 [] utf8 -> WholeDecoding("Utf8", s)
                 [] OTHER -> WholeDecoding(FallbackEncoding, s)
      r == Through(FilterCharacter, CleanTerminal, chars)
  IN  r.out \o Owed(r.state)

Occurs(p, s) == \E i \in 0..Len(s) - Len(p) : SubSeq(s, i + 1, i + Len(p)) = p

(* However a pipe cuts its bytes into chunks, the log says what the whole *)
(* stream says: the same encoding is found, sequences that are cut in two *)
(* vanish, and no secret slips through at a seam, not even one that was   *)
(* interrupted by control sequences.                                      *)
TextIsSafe ==
  LET whole == WholeText(received)
      said  == Replaced(whole, Len(whole)).out
  IN  /\ IsPrefix(written, said)
      /\ decoder.at = "Finished" => written = said
      /\ \A p \in Patterns : ~Occurs(p, written)
=============================================================================
