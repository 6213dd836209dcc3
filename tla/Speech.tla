-------------------------------- MODULE Speech --------------------------------
(***************************************************************************)
(* The narration of a note (ai/tts.py): the MP3 of one text in one voice,  *)
(* cached on disk, and the Turkish words its numbers are read as.  A       *)
(* listener is answered from the file when there is one and otherwise      *)
(* streamed to while the audio is written beside it; a warming thread      *)
(* renders the whole file.                                                 *)
(***************************************************************************)
EXTENDS Integers, Sequences, FiniteSets, SequencesExt

CONSTANTS Listeners,  \* requests for the audio
          Warmers,    \* threads that warm the cache
          Chunks,     \* chunks of a rendering
          MaxFiles,   \* bound: files ever created
          Numbers,    \* numbers that may stand in a text
          NoFile      \* no such path

ASSUME SpeechAssumption == Chunks \in Nat \ {0} /\ MaxFiles \in Nat /\ Numbers \subseteq Nat

VARIABLES
    disk,     \* the files created: a sequence of renderings, each a sequence of the writers of its chunks
    out,      \* the file behind the cache path
    part,     \* the file behind the .part path
    voice,    \* the listeners and the warming threads
    served,   \* history: the files listeners were answered from, as they were then
    crossed,  \* history: two of them were at the same file at the same time
    number    \* a number that is read out

speechVars == <<disk, out, part, voice, served, crossed, number>>

Actors == Listeners \union Warmers
Silent == [step |-> "idle", file |-> NoFile, at |-> 0]

SpeechInit ==
    /\ disk = <<>>
    /\ out = NoFile
    /\ part = NoFile
    /\ voice = [a \in Actors |-> Silent]
    /\ served = {}
    /\ crossed = FALSE
    /\ number \in Numbers

Opened(f) == \E a \in Actors : voice[a].step = "writing" /\ voice[a].file = f

\* open("wb"): the file of that path is emptied, or a new one made.
OpenAs(a, path) ==
    LET f == IF path = NoFile THEN Len(disk) + 1 ELSE path
    IN  /\ f <= MaxFiles
        /\ disk' = IF path = NoFile THEN Append(disk, <<>>) ELSE [disk EXCEPT ![f] = <<>>]
        /\ voice' = [voice EXCEPT ![a] = [step |-> "writing", file |-> f, at |-> 0]]
        /\ crossed' = (crossed \/ Opened(f))

\* A write at the place the writer has got to, over whatever is there.
Padded(s, n) == [k \in 1 .. (IF Len(s) > n THEN Len(s) ELSE n) |-> IF k <= Len(s) THEN s[k] ELSE NoFile]
Written(s, a, from, to) == [k \in DOMAIN Padded(s, to) |-> IF k \in from .. to THEN a ELSE Padded(s, to)[k]]

-------------------------------------------------------------------------------
\* get_note_audio.

\* cached_path: the file that is there, whatever it holds by now.
PlayCached(l) ==
    /\ voice[l].step = "idle"
    /\ out # NoFile
    /\ served' = served \union {disk[out]}
    /\ crossed' = (crossed \/ Opened(out))
    /\ voice' = [voice EXCEPT ![l].step = "over"]
    /\ UNCHANGED <<disk, out, part, number>>

\* stream: the file is looked for, and only then is the audio asked for.
AskAudio(l) ==
    /\ voice[l].step = "idle"
    /\ out = NoFile
    /\ voice' = [voice EXCEPT ![l].step = "asked"]
    /\ UNCHANGED <<disk, out, part, served, crossed, number>>

\* Mutant: the chunks go straight to the cache path.
StreamBeginsInPlace(l) ==
    /\ voice[l].step = "asked"
    /\ OpenAs(l, out)
    /\ out' = IF out = NoFile THEN Len(disk') ELSE out
    /\ UNCHANGED <<part, served, number>>

StreamBegins(l) ==
    /\ voice[l].step = "asked"
    /\ OpenAs(l, part)
    /\ part' = IF part = NoFile THEN Len(disk') ELSE part
    /\ UNCHANGED <<out, served, number>>

StreamGoesOn(l) ==
    /\ voice[l].step = "writing"
    /\ voice[l].at < Chunks
    /\ disk' = [disk EXCEPT ![voice[l].file] = Written(@, l, voice[l].at + 1, voice[l].at + 1)]
    /\ voice' = [voice EXCEPT ![l].at = @ + 1]
    /\ UNCHANGED <<out, part, served, crossed, number>>

\* The rename takes whatever file is at .part by then; there may be none any more.
StreamEnds(l) ==
    /\ voice[l].step = "writing"
    /\ voice[l].at = Chunks
    /\ out' = IF part = NoFile THEN out ELSE part
    /\ part' = NoFile
    /\ voice' = [voice EXCEPT ![l] = [Silent EXCEPT !.step = "over"]]
    /\ UNCHANGED <<disk, served, crossed, number>>

\* The listener leaves, or the vendor breaks off: nothing is renamed.
StreamBreaks(l) ==
    /\ voice[l].step \in {"asked", "writing"}
    /\ voice' = [voice EXCEPT ![l] = [Silent EXCEPT !.step = "over"]]
    /\ UNCHANGED <<disk, out, part, served, crossed, number>>

-------------------------------------------------------------------------------
\* synthesize: the whole answer, written to the cache path itself.

AskWhole(w) ==
    /\ voice[w].step = "idle"
    /\ out = NoFile
    /\ voice' = [voice EXCEPT ![w].step = "asked"]
    /\ UNCHANGED <<disk, out, part, served, crossed, number>>

WriteWhole(w) ==
    /\ voice[w].step = "asked"
    /\ OpenAs(w, out)
    /\ out' = IF out = NoFile THEN Len(disk') ELSE out
    /\ UNCHANGED <<part, served, number>>

WroteWhole(w) ==
    /\ voice[w].step = "writing"
    /\ disk' = [disk EXCEPT ![voice[w].file] = Written(@, w, 1, Chunks)]
    /\ voice' = [voice EXCEPT ![w] = [Silent EXCEPT !.step = "over"]]
    /\ UNCHANGED <<out, part, served, crossed, number>>

SpeechNext ==
    \/ \E l \in Listeners :
          \/ PlayCached(l) \/ AskAudio(l) \/ StreamBegins(l)
          \/ StreamGoesOn(l) \/ StreamEnds(l) \/ StreamBreaks(l)
    \/ \E w \in Warmers : AskWhole(w) \/ WriteWhole(w) \/ WroteWhole(w)

-------------------------------------------------------------------------------
\* tr_number_words.

Ones == <<"bir", "iki", "uc", "dort", "bes", "alti", "yedi", "sekiz", "dokuz">>
Tens == <<"on", "yirmi", "otuz", "kirk", "elli", "altmis", "yetmis", "seksen", "doksan">>
Scales == <<"bin", "milyon", "milyar", "trilyon">>

Said(words, k) == IF k = 0 THEN <<>> ELSE <<words[k]>>

Below1000(n) ==
    LET h == n \div 100
        hundreds == IF h = 0 THEN <<>> ELSE IF h = 1 THEN <<"yuz">> ELSE <<Ones[h], "yuz">>
    IN  hundreds \o Said(Tens, (n % 100) \div 10) \o Said(Ones, n % 10)

\* The i-th group of three digits with its scale; a thousand is "bin", not "bir bin".
Group(g, i) ==
    IF g = 0 THEN <<>>
    ELSE (IF g = 1 /\ i = 1 THEN <<>> ELSE Below1000(g)) \o Said(Scales, i)

\* Mutant: the scales of the groups that are not zero.
NumberWordsPacked(n) ==
    LET groups == SelectSeq([i \in 1 .. 4 |-> (n \div 1000 ^ (i - 1)) % 1000], LAMBDA g : g # 0)
    IN  IF n = 0 THEN <<"sifir">>
        ELSE FlattenSeq([i \in 1 .. Len(groups) |-> Group(groups[Len(groups) + 1 - i], Len(groups) - i)])

NumberWords(n) ==
    IF n = 0 THEN <<"sifir">>
    ELSE FlattenSeq([i \in 1 .. 4 |-> Group((n \div 1000 ^ (4 - i)) % 1000, 4 - i)])

-------------------------------------------------------------------------------
\* What a listener takes the words for: a scale closes a group, a hundred without a digit is one.
Understood(words) ==
    LET Place(seq, w) == CHOOSE k \in 1 .. Len(seq) : seq[k] = w
        OneAtLeast(k) == IF k = 0 THEN 1 ELSE k
        Hear(acc, w) ==
            CASE w \in Range(Scales) -> [sum |-> acc.sum + OneAtLeast(acc.group) * 1000 ^ Place(Scales, w), group |-> 0]
              [] w = "yuz" -> [acc EXCEPT !.group = 100 * OneAtLeast(@)]
              [] w \in Range(Tens) -> [acc EXCEPT !.group = @ + 10 * Place(Tens, w)]
              [] w \in Range(Ones) -> [acc EXCEPT !.group = @ + Place(Ones, w)]
              [] OTHER -> acc
        end == FoldLeft(Hear, [sum |-> 0, group |-> 0], words)
    IN  end.sum + end.group

\* A listener who left midway never leaves a cut or mixed narration for the next one:
\* what is played from the cache is one whole rendering, unless two of them were at the
\* file at the same time.
PlayedWhole ==
    \A f \in served : crossed \/ \E a \in Actors : f = [k \in 1 .. Chunks |-> a]

\* The words a number is read as say that number.
WordsSayNumber == Understood(NumberWords(number)) = number

\* What is heard is what was written, whole and with its numbers.
HeardAsWritten == PlayedWhole /\ WordsSayNumber

=============================================================================
