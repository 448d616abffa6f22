----------------------------- MODULE VoiceRegister -----------------------------
(***************************************************************************)
(* Who speaks in which voice: the durable register of the clients' voices, *)
(* against submissions that ask for one, the listener's pins and releases, *)
(* and the settings and restarts that change the engine and the languages  *)
(* its automatic voices are taken from.                                    *)
(*                                                                         *)
(* A request is handled in one step of the daemon's loop.  Text, speed,    *)
(* priority and sensitivity are left out: they are checked before the      *)
(* register is reached and change nothing when they are refused.           *)
(***************************************************************************)
EXTENDS Naturals, Sequences

CONSTANTS Agents, Listener, \* clients, and the name the listener's own apps speak under
          Engines, Reference, \* engines, and the one that is always there
          Catalog,      \* engine -> its voices, in order
          Language,     \* voice -> the code its name gives, or "other"
          Selections, Defaults, \* the languages and default voices the listener may save
          Assignees     \* bound: those the listener pins a voice to

Speakers == Agents \cup {Listener}
VoicesOf(e) == {Catalog[e][i] : i \in DOMAIN Catalog[e]}
Voices == UNION {VoicesOf(e) : e \in Engines}

ASSUME VoiceAssumption ==
  /\ Listener \notin Agents /\ Reference \in Engines
  /\ Defaults \subseteq Voices /\ Assignees \subseteq Speakers
  /\ \A e \in Engines : Catalog[e] \in Seq(DOMAIN Language) /\ Catalog[e] # <<>>
  /\ "none" \notin Voices

VARIABLES register,  \* speaker -> [voice, pinned], or NoVoice
          offered,   \* the engines of this run of the daemon
          current,   \* the one new speech is given to
          chosen,    \* the durable choice of it
          languages, \* voice_languages
          preferred, \* the default voice saved, or none
          heard      \* what came of the last submission, if that was the last request
voiceVars == <<register, offered, current, chosen, languages, preferred, heard>>

NoVoice == [voice |-> "none", pinned |-> FALSE]
Silence == [source |-> "none", engine |-> "none", voice |-> "none"]
Held(v, pinned) == [voice |-> v, pinned |-> pinned]

VoiceTypeOK ==
  /\ register \in [Speakers -> {NoVoice} \cup [voice : Voices, pinned : BOOLEAN]]
  /\ offered \subseteq Engines /\ {current, chosen} \subseteq Engines /\ current \in offered
  /\ languages \in Selections /\ preferred \in Defaults \cup {"none"}
  /\ heard \in {Silence} \cup [source : Speakers, engine : Engines,
                              voice : Voices \cup {"refused"}]

VoiceInit ==
  /\ register = [s \in Speakers |-> NoVoice]
  /\ offered \in {there \in SUBSET Engines : Reference \in there}
  /\ current = Reference /\ chosen = Reference
  /\ languages \in Selections /\ "en" \in languages /\ preferred = "none"
  /\ heard = Silence

SettingsKept == <<offered, current, chosen, languages, preferred>>

-----------------------------------------------------------------------------
(* resolve *)

\* The voices of an engine that agents take theirs from: those of the languages
\* selected, and all of a catalog whose voices tell no language.
PoolUnder(e, selected) ==
  {v \in VoicesOf(e) : Language[v] \in selected \/ \A o \in VoicesOf(e) : Language[o] = "other"}

Pool(e) == PoolUnder(e, languages)
FirstOf(e, voices) ==
  Catalog[e][CHOOSE i \in DOMAIN Catalog[e] :
               /\ Catalog[e][i] \in voices
               /\ \A j \in DOMAIN Catalog[e] : Catalog[e][j] \in voices => i <= j]
Pinned(s) == register[s].pinned

\* Whether the voice is the register's to choose.
Automatic(s) == s \in Agents /\ ~Pinned(s)

\* A claim on a voice the engine lacks is dropped, a pin on one is an error.
Reconciled(s, e) == IF register[s].voice \in VoicesOf(e) THEN register[s] ELSE NoVoice

\* And an agent's on a voice whose language is no longer selected.
Kept(s, e) ==
  IF Automatic(s) /\ Reconciled(s, e).voice \notin Pool(e) THEN NoVoice
  ELSE Reconciled(s, e)

\* What the others hold; a voice this speaker holds as well is its own.
Taken(s, kept) ==
  {register[o].voice : o \in {o \in Speakers \ {s} : register[o] # NoVoice}} \ {kept.voice}

\* The first voice nobody holds; the first of all once every one is held.
NextUnclaimed(e, taken) ==
  FirstOf(e, IF Pool(e) \subseteq taken THEN Pool(e) ELSE Pool(e) \ taken)

DefaultVoice(e) == IF preferred \in VoicesOf(e) THEN preferred ELSE Head(Catalog[e])

\* Mutant: whoever asks for a voice has it.
DecideAsked(s, e, requested, kept) ==
  CASE kept.pinned -> kept.voice
    [] ~kept.pinned /\ s \notin Agents -> IF requested # "none" THEN requested ELSE DefaultVoice(e)
    [] OTHER -> IF requested # "none" THEN requested
                ELSE IF kept # NoVoice THEN kept.voice
                ELSE NextUnclaimed(e, Taken(s, kept))

\* The pin; for the listener what they asked for or their default; for an agent the
\* voice it asked for if nobody else holds it, the one it has, or a new one.
Decide(s, e, requested, kept) ==
  CASE kept.pinned -> kept.voice
    [] ~kept.pinned /\ s \notin Agents -> IF requested # "none" THEN requested ELSE DefaultVoice(e)
    [] OTHER -> IF requested \notin Taken(s, kept) \cup {"none"} THEN requested
                ELSE IF kept # NoVoice THEN kept.voice
                ELSE NextUnclaimed(e, Taken(s, kept))

Unknown(e, requested) == requested # "none" /\ requested \notin VoicesOf(e)
Withdrawn(s, e) == Pinned(s) /\ register[s].voice \notin VoicesOf(e)
OutsideLanguages(s, e, requested) ==
  Automatic(s) /\ (Pool(e) = {} \/ requested \notin Pool(e) \cup {"none"})

\* A refusal may come after a claim on a voice the engine lacks was dropped.
SubmitRefused(s, e, requested) ==
  /\ Unknown(e, requested) \/ Withdrawn(s, e) \/ OutsideLanguages(s, e, requested)
  /\ register' = IF Unknown(e, requested) \/ Withdrawn(s, e) THEN register
                 ELSE [register EXCEPT ![s] = Reconciled(s, e)]
  /\ heard' = [source |-> s, engine |-> e, voice |-> "refused"]
  /\ UNCHANGED SettingsKept

Submit(s, e, requested) ==
  /\ ~Unknown(e, requested) /\ ~Withdrawn(s, e) /\ ~OutsideLanguages(s, e, requested)
  /\ LET kept == Kept(s, e)
         voice == Decide(s, e, requested, kept)
     IN  /\ register' = [register EXCEPT ![s] = IF Automatic(s) THEN Held(voice, FALSE) ELSE kept]
         /\ heard' = [source |-> s, engine |-> e, voice |-> voice]
  /\ UNCHANGED SettingsKept

-----------------------------------------------------------------------------
(* The listener's requests, and restarts *)

Pin(s, v) ==
  /\ v \in VoicesOf(current)
  /\ register' = [register EXCEPT ![s] = Held(v, TRUE)]
  /\ heard' = Silence /\ UNCHANGED SettingsKept

Unassign(s) ==
  /\ register[s] # NoVoice /\ register' = [register EXCEPT ![s] = NoVoice]
  /\ heard' = Silence /\ UNCHANGED SettingsKept

\* Agents are left a voice of the engine that is asked for.
Speaks(target, selected) == PoolUnder(target, selected) # {}

\* Everything is checked against the engine the request ends with, whatever the
\* order of its keys, before anything is written.
ApplySettings(name, selected, voice) ==
  LET target == IF name = "none" THEN current ELSE name IN
  /\ target \in offered
  /\ name # "none" \/ selected # languages => Speaks(target, selected)
  /\ voice # preferred => voice \in VoicesOf(target)
  /\ current' = target /\ chosen' = (IF name = "none" THEN chosen ELSE name)
  /\ languages' = selected /\ preferred' = voice /\ heard' = Silence
  /\ UNCHANGED <<register, offered>>

\* A model set up while the daemon runs.
EngineAdded(e) ==
  /\ e \notin offered /\ offered' = offered \cup {e} /\ heard' = Silence
  /\ UNCHANGED <<register, current, chosen, languages, preferred>>

\* The engines there are then; the one named for this run, or the one chosen, or
\* the reference engine when that is not there.
Reboot(there, override) ==
  /\ override \in there \cup {"none"} /\ offered' = there
  /\ current' = IF override # "none" THEN override
               ELSE IF chosen \in there THEN chosen ELSE Reference
  /\ heard' = Silence /\ UNCHANGED <<register, chosen, languages, preferred>>

VoiceNext ==
  \/ \E s \in Speakers, e \in offered, requested \in Voices \cup {"none"} :
       Submit(s, e, requested) \/ SubmitRefused(s, e, requested)
  \/ \E s \in Speakers : Unassign(s)
  \/ \E s \in Assignees, v \in Voices : Pin(s, v)
  \/ \E name \in Engines \cup {"none"}, selected \in Selections, voice \in {preferred} \cup Defaults :
       ApplySettings(name, selected, voice)
  \/ \E e \in Engines : EngineAdded(e)
  \/ \E there \in SUBSET Engines, override \in Engines \cup {"none"} :
       Reference \in there /\ Reboot(there, override)

VoiceSpec == VoiceInit /\ [][VoiceNext]_voiceVars

-----------------------------------------------------------------------------
(* Properties *)

\* No submission, accepted or refused, changes a pin; an agent is heard in a voice of
\* its engine that the register shows for it; and one that others hold is given to an
\* agent that did not have it only when they hold the engine's every automatic voice.
VoicesStayApart ==
  [][heard' # Silence =>
       LET s == heard'.source
           others == {register'[o].voice : o \in Speakers \ {s}}
           given == s \in Agents /\ register'[s] \notin {register[s], NoVoice}
       IN  /\ \A o \in Speakers : Pinned(o) \/ o # s => register'[o] = register[o]
           /\ heard'.voice # "refused" =>
                /\ heard'.voice \in VoicesOf(heard'.engine)
                /\ s \in Agents => register'[s].voice = heard'.voice
           /\ given /\ register'[s].voice \in others => Pool(heard'.engine) \subseteq others
    ]_voiceVars
=============================================================================
