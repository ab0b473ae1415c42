------------------------------ MODULE Analysis ------------------------------
(***************************************************************************)
(* What the core makes of one file: the orchestrator, which decides on the *)
(* stages, runs their engines and notes their models (orchestrator.rs,     *)
(* engines.rs), the key under which the result is cached (analysis.rs),    *)
(* the local classifiers, and the reading of a language model's answer     *)
(* (ai.rs).                                                                *)
(***************************************************************************)
EXTENDS Integers, Sequences, SequencesExt

CONSTANT None       \* Option::None

Extensions == {"audio", "text", "pdf", "image", "video", "other"}

(* Orchestrator::decide: reading the text and the embedding are always     *)
(* needed.  An image with a telling name is not looked at; any other file  *)
(* is, if its MIME type says it is an image.                               *)
Decide(f) ==
    [ocr    |-> f.ext = "pdf" /\ ~f.text,
     vision |-> \/ f.ext = "image" /\ ~f.telling
                \/ f.ext = "video"
                \/ f.ext = "other" /\ f.image,
     audio  |-> (f.ext = "audio" /\ ~f.tags) \/ f.ext = "video"]

(* try_extract_text: a file that is not a text file or a PDF, cannot be    *)
(* read or is blank has no text.                                           *)
HasText(f) == f.ext \in {"text", "pdf"} /\ f.text

\* An engine runs on the file or fails.
Run(needed, fails) == needed /\ ~fails

Model(ran, id) == IF ran THEN id ELSE None

(* What is classified: the first of these that there is. *)
ClassifiedBy(text, done) ==
    CASE text -> "text"
      [] ~text /\ done.ocr -> "ocr"
      [] ~text /\ ~done.ocr /\ done.audio -> "transcript"
      [] ~text /\ ~done.ocr /\ ~done.audio /\ done.vision -> "summary"
      [] OTHER -> "path"

Failed == [failed |-> TRUE]

(* Orchestrator::analyze: nothing reads the tags of an audio file, so that *)
(* its speech is always transcribed.  A stage that fails leaves no result, *)
(* but vision and audio leave the name of their model; OCR never does.     *)
(* Only the classification must not fail.                                  *)
Analyze(f, engines, fails) ==
    LET d == Decide([f EXCEPT !.text = HasText(f), !.tags = FALSE])
        done == [ocr    |-> Run(d.ocr, "ocr" \in fails),
                 vision |-> Run(d.vision, "vision" \in fails),
                 audio  |-> Run(d.audio, "audio" \in fails)]
        vector == Model("embedding" \notin fails, engines.embedding)
    IN  IF "reasoning" \in fails THEN Failed ELSE
        [content   |-> f.content,
         ext       |-> f.ext,
         ocr       |-> Model(done.ocr, engines.ocr),
         seen      |-> Model(done.vision, engines.vision),
         heard     |-> Model(done.audio, engines.audio),
         category  |-> [by |-> engines.reasoning, of |-> ClassifiedBy(HasText(f), done)],
         vector    |-> vector,
         versions  |-> [reasoning |-> engines.reasoning,
                        embedding |-> vector,
                        vision    |-> Model(d.vision, engines.vision),
                        audio     |-> Model(d.audio, engines.audio)]]

\* Faulty: without the model of the vision stage.
CacheKeyBlind(a) == <<a.content, a.ext, a.versions.embedding, a.versions.reasoning>>

(* FileAnalysis::cache_key: neither the name of the file nor the model of  *)
(* the audio stage.                                                        *)
CacheKey(a) ==
    <<a.content, a.ext, a.versions.embedding, a.versions.reasoning, a.versions.vision>>

-----------------------------------------------------------------------------
(* The local classifiers *)

\* confidence_from_cosine, both in hundredths: the cosine is from -100 to 100.
FromCosine(c) == (c + 100) \div 2

(* classify_via_embeddings: the first of the exemplars with the highest    *)
(* cosine.                                                                 *)
Nearest(cosines) ==
    CHOOSE i \in DOMAIN cosines :
        /\ \A j \in DOMAIN cosines : cosines[j] <= cosines[i]
        /\ \A j \in 1 .. i - 1 : cosines[j] < cosines[i]

(* heuristic_classify: by the extension alone. *)
Heuristic(ext) ==
    [category |-> ext, confidence |-> IF ext = "other" THEN 62 ELSE 80]

(* RealModel::load: an exemplar that cannot be embedded is left out.       *)
Loaded(exemplars) == SelectSeq(exemplars, LAMBDA e : e.embeds)

(* BundledLocalProvider::classify: without the model's files, a model that *)
(* loads with an exemplar at least, or a vector of the input, it is the    *)
(* heuristic.  Once loaded the model stays, but its files are looked for   *)
(* each time.                                                              *)
ClassifyBundled(ext, local, exemplars) ==
    LET use == Loaded(exemplars) IN
    IF local.files /\ (local.loaded \/ local.loads) /\ use # <<>> /\ local.embeds
    THEN LET i == Nearest([k \in DOMAIN use |-> use[k].cosine]) IN
         [category |-> use[i].category, confidence |-> FromCosine(use[i].cosine)]
    ELSE Heuristic(ext)

-----------------------------------------------------------------------------
(* The answer of a language model, as a sequence of marks: the word json,  *)
(* and characters of one byte ("text") or three ("wide")                   *)

Marks == {"fence", "json", "open", "close", "text", "wide"}

Bytes(mark) == CASE mark = "json" -> 4 [] mark \in {"fence", "wide"} -> 3 [] OTHER -> 1

\* Where the k-th mark begins.
Offset(s, k) == FoldLeft(LAMBDA n, mark : n + Bytes(mark), 0, SubSeq(s, 1, k - 1))

FirstAt(s, mark) == SelectInSeq(s, LAMBDA x : x = mark)
LastAt(s, mark)  == SelectLastInSeq(s, LAMBDA x : x = mark)

\* A slice ends before it begins, or within a character.
Panic == <<"panic">>

(* inner[..4] is a slice of bytes. *)
CutsCharacter(s) ==
    \E k \in DOMAIN s : s[k] = "wide" /\ Offset(s, k) < 4 /\ Offset(s, k) + 3 > 4

\* Faulty: the name of the language is left.
LanguageKept(s) == IF CutsCharacter(s) THEN Panic ELSE s

DropLanguage(s) ==
    CASE CutsCharacter(s) -> Panic
      [] ~CutsCharacter(s) /\ s # <<>> /\ s[1] = "json" -> Tail(s)
      [] OTHER -> s

(* From the first brace that opens to the last that closes, if there are   *)
(* both, in whichever order.                                               *)
Braces(s) ==
    LET i == FirstAt(s, "open")
        j == LastAt(s, "close")
    IN  CASE i = 0 \/ j = 0 -> s
          [] i # 0 /\ j # 0 /\ j < i - 1 -> Panic
          [] OTHER -> SubSeq(s, i, j)

(* extract_json: what is between the first two fences, or the braces after *)
(* the only one, or the braces.                                            *)
ExtractJson(raw) ==
    LET i == FirstAt(raw, "fence")
        rest == SubSeq(raw, i + 1, Len(raw))
    IN  CASE i = 0 -> Braces(raw)
          [] i # 0 /\ FirstAt(rest, "fence") # 0 -> DropLanguage(SubSeq(rest, 1, FirstAt(rest, "fence") - 1))
          [] OTHER -> Braces(DropLanguage(rest))

=============================================================================
