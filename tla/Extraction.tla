------------------------------ MODULE Extraction ------------------------------
(***************************************************************************)
(* Extracting notes from one translated conversation                       *)
(* (cli/internal/extract/extract.go, parse.go): a long conversation is     *)
(* split at its lines into chunks; each chunk is given to the model up to  *)
(* three times, and then, but for the last, again for a summary that goes  *)
(* with the next chunk.  A chunk that fails is passed over.                *)
(*                                                                         *)
(* A conversation is a sequence of lines [tokens, notes]: its estimated    *)
(* tokens and the notes the model finds in it.                             *)
(***************************************************************************)
EXTENDS Naturals, Sequences, SequencesExt

CONSTANTS
  Convo,      \* translated conversations, sequences of lines
  Threshold   \* token.ChunkingThreshold

ASSUME ExtractionAssumption == Threshold \in Nat

VARIABLES
  stage,     \* "start", "extract", "summarize", "done", or "left"
  convo,     \* the conversation
  chunks,    \* its chunks, as sequences of lines
  ci,        \* the chunk being extracted
  tries,     \* calls of the model that failed for it
  summary,   \* the chunk whose summary is in the prompt, 0 for none
  found,     \* notes extracted, in order
  extracted, \* "yes", or "error" to the caller
  failed,    \* chunks the model never answered for (history)
  held,      \* notes the conversation holds (history)
  passed     \* notes of failed chunks or refused by the parser (history)

exvars == <<stage, convo, chunks, ci, tries, summary, found, extracted, failed, held, passed>>

MaxTries == 3

Tokens(lines) == FoldLeft(LAMBDA n, l : n + l.tokens, 0, lines)
Notes(lines)  == FoldLeft(LAMBDA ns, l : ns \o l.notes, <<>>, lines)

(* Fault: the line that takes the chunk over the threshold still goes in *)
Split_Late(lines) ==
  LET Add(cs, l) ==
        IF cs = <<>> \/ Tokens(Last(cs)) > Threshold
        THEN Append(cs, <<l>>)
        ELSE Front(cs) \o << Append(Last(cs), l) >>
  IN FoldLeft(Add, <<>>, lines)

(* Split before a line that would take the chunk over the threshold *)
Split(lines) ==
  LET Add(cs, l) ==
        IF cs = <<>> \/ (Tokens(Last(cs)) > 0 /\ Tokens(Last(cs)) + l.tokens > Threshold)
        THEN Append(cs, <<l>>)
        ELSE Front(cs) \o << Append(Last(cs), l) >>
  IN FoldLeft(Add, <<>>, lines)

ExInit ==
  /\ stage = "start"
  /\ convo \in Convo
  /\ chunks = <<>>
  /\ ci = 0
  /\ tries = 0
  /\ summary = 0
  /\ found = <<>>
  /\ extracted = "yes"
  /\ failed = {}
  /\ held = ToSet(Notes(convo))
  /\ passed = {}

(* ExtractChunked: in one piece if it is small enough *)
Chunk ==
  /\ stage = "start"
  /\ chunks' = IF Tokens(convo) <= Threshold THEN <<convo>> ELSE Split(convo)
  /\ ci' = 1
  /\ stage' = "extract"
  /\ UNCHANGED <<convo, tries, summary, found, extracted, failed, held, passed>>

(* What the model returns for a chunk: the valid entries among its notes.
   Text that is no JSON array at all is an answer with no notes. *)
Parsed(c) ==
  LET Valid(S) == FoldLeft(LAMBDA ns, n : IF n \in S THEN Append(ns, n) ELSE ns, <<>>, Notes(c))
  IN {Valid(S) : S \in SUBSET ToSet(Notes(c))}

NextChunk ==
  /\ tries' = 0
  /\ IF ci < Len(chunks) THEN ci' = ci + 1 /\ stage' = "extract"
                         ELSE stage' = "done" /\ UNCHANGED ci

Answer ==
  /\ stage = "extract"
  /\ \E ns \in Parsed(chunks[ci]) :
       /\ found' = found \o ns
       /\ passed' = passed \cup (ToSet(Notes(chunks[ci])) \ ToSet(ns))
  /\ IF ci < Len(chunks)
     THEN stage' = "summarize" /\ tries' = 0 /\ UNCHANGED ci
     ELSE NextChunk
  /\ UNCHANGED <<convo, chunks, summary, extracted, failed, held>>

Retry ==
  /\ stage = "extract"
  /\ tries < MaxTries - 1
  /\ tries' = tries + 1
  /\ UNCHANGED <<stage, convo, chunks, ci, summary, found, extracted, failed, held, passed>>

(* The last attempt fails: an error for a conversation in one piece, the
   next chunk for one in several *)
GiveUp ==
  /\ stage = "extract"
  /\ tries = MaxTries - 1
  /\ failed' = failed \cup {ci}
  /\ extracted' = IF Len(chunks) = 1 THEN "error" ELSE extracted
  /\ passed' = passed \cup ToSet(Notes(chunks[ci]))
  /\ NextChunk
  /\ UNCHANGED <<convo, chunks, summary, found, held>>

(* Fault: when the call fails the older summary stays *)
Summarize_Older ==
  /\ stage = "summarize"
  /\ summary' \in {ci, summary}
  /\ NextChunk
  /\ UNCHANGED <<convo, chunks, found, extracted, failed, held, passed>>

Summarize ==
  /\ stage = "summarize"
  /\ summary' \in {ci, 0}
  /\ NextChunk
  /\ UNCHANGED <<convo, chunks, found, extracted, failed, held, passed>>

(* The call returns and its locals are gone *)
Leave ==
  /\ stage = "done"
  /\ stage' = "left"
  /\ convo' = <<>> /\ chunks' = <<>> /\ ci' = 0 /\ tries' = 0 /\ summary' = 0
  /\ failed' = {}
  /\ UNCHANGED <<found, extracted, held, passed>>

ExNext == Chunk \/ Answer \/ Retry \/ GiveUp \/ Summarize \/ Leave

-----------------------------------------------------------------------------
(* Every line is in exactly one chunk, in order, and a chunk over the
   threshold is a single line that is (extract.go:119-120). *)
ChunksCover ==
  stage \notin {"start", "left"} =>
    /\ FlattenSeq(chunks) = convo
    /\ \A i \in DOMAIN chunks : Tokens(chunks[i]) > Threshold => Len(chunks[i]) = 1

(* The summary in a prompt is of the chunk before it, unless that chunk
   failed: then an older one is carried on (extract.go:76, 97-101). *)
SummaryIsLatest ==
  stage = "extract" /\ summary # 0 =>
    /\ summary < ci
    /\ (summary + 1)..(ci - 1) \subseteq failed
=============================================================================
