-------------------------------- MODULE Memory --------------------------------
(* The long-term memory (memory/store.py, write_gate.py, service.py,          *)
(* retriever.py): entries are saved, replaced, deleted and outlived, and a    *)
(* request gets those of its tenant that its text is about, as hints.         *)
(* One session. A name the user wants to be called by is left out: it gives   *)
(* the compiler nothing. The memory is the sequence of everything saved.      *)
EXTENDS Utterance

CONSTANTS Tenants

VARIABLE memory

Keys == {"cabin_temperature", "cabin_fan", "media_volume"}
\* The field of the hints that a key becomes.
Named == [cabin_temperature |-> "temp", cabin_fan |-> "fan", media_volume |-> "volume"]
\* What the write gate lets an utterance set, and the domain it gives it.
Sayable == [cabin_temperature |-> 16..30, cabin_fan |-> 0..7, media_volume |-> 0..40]
DomainOf == [cabin_temperature |-> "cabin", cabin_fan |-> "cabin", media_volume |-> "media"]

\* deleted records who made an entry inactive: the user, or a newer entry.
Entry(key, value, domain, tenant) ==
  [key |-> key, value |-> value, domain |-> domain, tenant |-> tenant,
   active |-> TRUE, deleted |-> FALSE, old |-> FALSE]
\* Mutant: an entry is replaced by one of the same key, whoever saved it.
MutReplaced(m, e) ==
  [i \in DOMAIN m |-> IF m[i].key = e.key THEN [m[i] EXCEPT !.active = FALSE] ELSE m[i]]
\* MemoryStore.save: the entry of this tenant and key goes out of use.
Replaced(m, e) ==
  [i \in DOMAIN m |->
     IF m[i].key = e.key /\ m[i].tenant = e.tenant THEN [m[i] EXCEPT !.active = FALSE] ELSE m[i]]
Saved(m, e) == Append(Replaced(m, e), e)

\* try_write_from_utterance: with a run to name as its source, and a value in range.
Remember(key, value, tenant) ==
  /\ value \in Sayable[key]
  /\ memory' = Saved(memory, Entry(key, value, DomainOf[key], tenant))
\* write_manual: any value; the domain is the caller's, "general" by default.
WriteManual(key, value, domain, tenant) ==
  memory' = Saved(memory, Entry(key, value, domain, tenant))
\* delete_memory: of the caller's tenant, also an entry that is out of use.
Forget(i, tenant) ==
  /\ i \in DOMAIN memory /\ memory[i].tenant = tenant
  /\ memory' = [memory EXCEPT ![i].active = FALSE, ![i].deleted = TRUE]
\* 180 days go by.
Outlive ==
  /\ \E i \in DOMAIN memory : ~memory[i].old
  /\ memory' = [i \in DOMAIN memory |-> [memory[i] EXCEPT !.old = TRUE]]

-----------------------------------------------------------------------------
(* MemoryRetriever.retrieve.                                                 *)
CabinWords == {"warmth", "air", "fan", "rest"}
MediaWords == {"media", "quiet", "silent", "rest"}
\* _goal_domains_from_text
Domains(t) ==
  LET named == (IF HasAny(t, CabinWords) THEN {"cabin"} ELSE {})
               \cup (IF HasAny(t, MediaWords) THEN {"media"} ELSE {})
               \cup (IF Has(t, "nav") THEN {"navigation"} ELSE {})
  IN IF named = {} THEN {"cabin", "media", "general"} ELSE named
Relevant(e, t) ==
  /\ e.domain \in Domains(t) \cup {"general"}
  /\ HasAny(t, IF e.key = "media_volume" THEN MediaWords ELSE CabinWords)
Usable(m, i, key, tenant) ==
  m[i].active /\ ~m[i].old /\ m[i].key = key /\ m[i].tenant = tenant
Found(m, t, key, tenant) ==
  {i \in DOMAIN m : Usable(m, i, key, tenant) /\ Relevant(m[i], t)}
Newest(S) == CHOOSE i \in S : \A j \in S : j <= i
\* compile_hints; of several entries of one key the latest (arbitrate).
Suggested(m, t, key, tenant) ==
  LET found == Found(m, t, key, tenant)
  IN IF found = {} THEN NoNumber ELSE m[Newest(found)].value
Retrieve(m, t, tenant) ==
  [temp |-> Suggested(m, t, "cabin_temperature", tenant),
   fan |-> Suggested(m, t, "cabin_fan", tenant),
   volume |-> Suggested(m, t, "media_volume", tenant)]

-----------------------------------------------------------------------------
MemoryTypeOK ==
  \A i \in DOMAIN memory :
    /\ memory[i].key \in Keys /\ memory[i].value \in Nat /\ memory[i].tenant \in Tenants
    /\ memory[i].domain \in {"cabin", "media", "general"}
    /\ {memory[i].active, memory[i].deleted, memory[i].old} \subseteq BOOLEAN
==============================================================================
