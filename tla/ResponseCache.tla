---------------------------- MODULE ResponseCache ----------------------------
(***************************************************************************)
(* The disk cache around a paid model client (llm/cache.py): one file per  *)
(* prompt, written after the client answered and never again.  The service *)
(* calls the model under the pipeline's lock, so one call is under way at  *)
(* a time.  Creating the file and completing it are two steps of one write *)
(* and a process that dies between them leaves a file that is no JSON.     *)
(***************************************************************************)
EXTENDS Naturals, FiniteSets

CONSTANTS
  Prompts,  \* messages with their sampling parameters, as _key hashes them
  Answers,  \* what the client may answer
  Absent,   \* no file
  Torn,     \* a file that does not parse
  NoWrite   \* no file is being written

ASSUME CacheAssumption == Absent \notin Answers /\ Torn \notin Answers /\ Absent # Torn

VARIABLES
  entries,  \* per prompt: Absent, Torn, or the stored answer
  open,     \* the file being written: its prompt and answer
  told      \* history: per prompt, the answers handed to a caller

cache == <<entries, open, told>>

-----------------------------------------------------------------------------
\* Faulty: the stored response is not looked up.
NeverCached(p) == FALSE
\* path.exists().
Cached(p) == entries[p] # Absent

Tell(p, a) == told' = [told EXCEPT ![p] = @ \cup {a}]

\* complete, on a hit: the stored response, and the client is not called.
Hit(p, a) ==
  /\ open = NoWrite /\ Cached(p)
  /\ entries[p] = a
  /\ Tell(p, a)
  /\ UNCHANGED <<entries, open>>

\* json.loads raises: the file is in the way of every later call.
HitRaises(p) ==
  /\ open = NoWrite /\ Cached(p)
  /\ entries[p] = Torn
  /\ UNCHANGED cache

\* The client raises: nothing is stored.
MissRaises(p) ==
  /\ open = NoWrite /\ ~Cached(p)
  /\ UNCHANGED cache

\* The client answers, and write_text creates or truncates the file.
MissAnswered(p, a) ==
  /\ open = NoWrite /\ ~Cached(p)
  /\ entries' = [entries EXCEPT ![p] = Torn]
  /\ open' = [prompt |-> p, answer |-> a]
  /\ UNCHANGED told

\* The file is complete, and the answer is returned.
WriteDone ==
  /\ open # NoWrite
  /\ entries' = [entries EXCEPT ![open.prompt] = open.answer]
  /\ Tell(open.prompt, open.answer)
  /\ open' = NoWrite

\* write_text raises (a full disk): what it wrote stays.
WriteRaises ==
  /\ open # NoWrite
  /\ open' = NoWrite
  /\ UNCHANGED <<entries, told>>

CacheCrash ==
  /\ open' = NoWrite
  /\ UNCHANGED <<entries, told>>

CacheInit ==
  /\ entries = [p \in Prompts |-> Absent]
  /\ open = NoWrite
  /\ told = [p \in Prompts |-> {}]

CacheNext ==
  \/ \E p \in Prompts, a \in Answers : Hit(p, a) \/ MissAnswered(p, a)
  \/ \E p \in Prompts : HitRaises(p) \/ MissRaises(p)
  \/ WriteDone \/ WriteRaises \/ CacheCrash

CacheSpec == CacheInit /\ [][CacheNext]_cache

-----------------------------------------------------------------------------
(* Properties *)

CacheTypeOK ==
  /\ entries \in [Prompts -> Answers \cup {Absent, Torn}]
  /\ open \in [prompt: Prompts, answer: Answers] \cup {NoWrite}
  /\ told \in [Prompts -> SUBSET Answers]

\* cache.py:3-5, "reruns are cheap and deterministic": a prompt that was once
\* answered is never answered differently, through failed writes and crashes.
AnswersStand == \A p \in Prompts : \A a, b \in told[p] : a = b

\* Why it holds: what a caller was told is what the file says.
ToldAsStored ==
  /\ \A p \in Prompts : \A a \in told[p] : entries[p] = a
  /\ open # NoWrite => entries[open.prompt] = Torn

CacheInv == CacheTypeOK /\ ToldAsStored

=============================================================================
