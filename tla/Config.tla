------------------------------- MODULE Config -------------------------------
(***************************************************************************)
(* Loading the configuration (internal/config): one section of the YAML    *)
(* document, in which a value may name its source, an environment variable *)
(* or a file, and the checks on what results.  Sections are resolved one   *)
(* after the other and alike, so one stands for them.                      *)
(*                                                                         *)
(* resolve ranges over a Go map, in an order that differs from run to run, *)
(* and rewrites it meanwhile: an entry inserted during the loop may be     *)
(* visited by it or not.  This matters when the entry is itself a source:  *)
(* token_file_env becomes token_file, which becomes token if the loop      *)
(* comes upon it and otherwise stays, a field that nothing knows.          *)
(***************************************************************************)
EXTENDS Integers

CONSTANTS
  Documents,       \* configurations to check: a value for some of the keys, and settings
  Environment,     \* the variables that are set
  SecretFiles      \* the files that can be read

(* A key is a field's name, that and the suffix of its source, or that and   *)
(* another suffix: token_file_env is a variable that holds a file's name.     *)
(* Two are the bound; a third would be followed, or not, as the second is.   *)
Fields == {"driver", "token", "replicas"}
Suffixes == {"", "_env", "_file"}
Key == [field: Fields, source: Suffixes, chained: Suffixes]
(* A text, or the ${variable} it is to be taken from. *)
Value == [reference: STRING, text: STRING]

NamedBy(name, source) == [field |-> name, source |-> source, chained |-> ""]
Field(name) == NamedBy(name, "")
Sourced(key) == key.source # ""
Chained(key) == key.chained # ""

VARIABLES
  document,        \* the configuration mounted
  values,          \* the section as it is rewritten
  unexpanded,      \* keys whose text may still hold references
  unresolved,      \* keys not yet looked at for a source
  loaded           \* "no", "yes" or "rejected"

configVars == <<document, values, unexpanded, unresolved, loaded>>

ASSUME ConfigAssumption ==
  \A d \in Documents :
    /\ DOMAIN d.values \subseteq Key
    /\ \A k \in DOMAIN d.values :
         d.values[k] \in Value /\ (Chained(k) => Sourced(k)) /\ (k.field = "driver" => ~Sourced(k))

Unread(d) ==
  /\ document = d
  /\ values = d.values
  /\ unexpanded = DOMAIN d.values
  /\ unresolved = DOMAIN d.values
  /\ loaded = "no"

Reject == loaded' = "rejected" /\ UNCHANGED <<document, values, unexpanded, unresolved>>

-----------------------------------------------------------------------------
(* resolve: ${variables} first, then sources. *)

Expands(value) == value.reference # "" => value.reference \in DOMAIN Environment
Expanded(value) ==
  [reference |-> "",
   text |-> IF value.reference = "" THEN value.text ELSE Environment[value.reference]]

Expand(key) ==
  /\ loaded = "no" /\ key \in unexpanded
  /\ IF Expands(values[key])
       THEN /\ values' = [values EXCEPT ![key] = Expanded(@)]
            /\ unexpanded' = unexpanded \ {key}
            /\ UNCHANGED <<document, unresolved, loaded>>
       ELSE Reject

(* A key's last suffix, and the keys with that left out and exchanged. *)
Suffix(key) == IF Chained(key) THEN key.chained ELSE key.source
Base(key) == IF Chained(key) THEN NamedBy(key.field, key.source) ELSE Field(key.field)
Other(suffix) == IF suffix = "_env" THEN "_file" ELSE "_env"
Sibling(key) ==
  IF Chained(key) THEN [NamedBy(key.field, key.source) EXCEPT !.chained = Other(key.chained)]
  ELSE NamedBy(key.field, Other(key.source))

Sources(suffix) == IF suffix = "_env" THEN Environment ELSE SecretFiles
CanRead(suffix, name) == name \in DOMAIN Sources(suffix) /\ Sources(suffix)[name] # ""
Found(key) == CanRead(Suffix(key), values[key].text)

\* Mutation: the source that is looked at last prevails.
NeverConflicts(key) == FALSE
Conflicts(key) == Base(key) \in DOMAIN values \/ Sibling(key) \in DOMAIN values

(* The key is replaced by its base, which the loop may or may not come upon. *)
Source(key) ==
  /\ loaded = "no" /\ unexpanded = {} /\ key \in unresolved
  /\ CASE ~Sourced(key) ->
            unresolved' = unresolved \ {key} /\ UNCHANGED <<document, values, unexpanded, loaded>>
       [] Sourced(key) /\ (Conflicts(key) \/ ~Found(key)) -> Reject
       [] OTHER ->
            /\ values' = [k \in (DOMAIN values \ {key}) \cup {Base(key)} |->
                 IF k = Base(key)
                   THEN [reference |-> "", text |-> Sources(Suffix(key))[values[key].text]] ELSE values[k]]
            /\ \E inserted \in SUBSET {Base(key)} : unresolved' = (unresolved \ {key}) \cup inserted
            /\ UNCHANGED <<document, unexpanded, loaded>>

-----------------------------------------------------------------------------
(* Conversion, decoding and the checks of Load. *)

TextOf(v, name) == IF Field(name) \in DOMAIN v THEN v[Field(name)].text ELSE ""
Number(text) == CASE text = "0" -> 0 [] text = "1" -> 1 [] text = "2" -> 2 [] OTHER -> -1

(* One replica by default; a text that is no number is refused. *)
Replicas(v) == IF Field("replicas") \in DOMAIN v THEN Number(TextOf(v, "replicas")) ELSE 1

ServerFits(s) ==
  s.port \in 1..65535 /\ s.bodyKiB \in 1..16384 /\ s.headerTimeout > 0 /\ s.requestTimeout \in 1..2999
WorkerFits(s) ==
  /\ s.backoffBase > 0 /\ s.backoffMax >= s.backoffBase /\ s.coalesce >= 0
  /\ s.concurrency >= 1 /\ s.grace > 0 /\ s.lease >= 3000 /\ s.attempts >= 1 /\ s.poll > 0
ReactionsFit(s) == s.tracking # "" => s.tracking \notin {s.success, s.failure}
AttachmentsFit(s) ==
  /\ s.attachmentBytes \in 1..1073741824 /\ s.tempDir # ""
  /\ (s.attachments => s.types # {}) /\ "*/*" \notin s.types
(* A template is "blank", "broken" or "compiles". *)
TemplateFits(s) == s.template \notin {"blank", "broken"}
OneWriter(v) == TextOf(v, "driver") = "sqlite" => Replicas(v) = 1

Fits(v, s) ==
  /\ TextOf(v, "token") # "" /\ TextOf(v, "driver") # ""
  /\ Replicas(v) >= 1 /\ OneWriter(v)
  /\ s.accountIsNumber
  /\ ServerFits(s) /\ WorkerFits(s) /\ ReactionsFit(s) /\ AttachmentsFit(s) /\ TemplateFits(s)

(* KnownFields: a key that still names a source is no field. *)
Known(v) == \A key \in DOMAIN v : ~Sourced(key)

Accept ==
  /\ loaded = "no" /\ unexpanded = {} /\ unresolved = {}
  /\ loaded' = IF Known(values) /\ Fits(values, document.settings) THEN "yes" ELSE "rejected"
  /\ UNCHANGED <<document, values, unexpanded, unresolved>>

Load ==
  \/ \E key \in DOMAIN values : Expand(key) \/ Source(key)
  \/ Accept

-----------------------------------------------------------------------------
(* What the document says, whatever order it is read in: a key's text, and *)
(* what its source, or the source of that, makes of it.                    *)
Given(name) == {key \in DOMAIN document.values : key.field = name}
Says(key) == Expanded(document.values[key]).text
Leads(key, text) ==
  /\ Sourced(key) => CanRead(Suffix(key), text)
  /\ Chained(key) => CanRead(key.source, Sources(key.chained)[text])
Followed(key, text) ==
  IF ~Sourced(key) THEN text
  ELSE IF ~Chained(key) THEN Sources(key.source)[text]
  ELSE Sources(key.source)[Sources(key.chained)[text]]
Means(key) == Followed(key, Says(key))
Readable(key) == Expands(document.values[key]) /\ Leads(key, Says(key))

Acceptable ==
  /\ \A name \in Fields : \A j, k \in Given(name) : j = k
  /\ \A key \in DOMAIN document.values : Readable(key)
  /\ Fits([key \in {Field(name) : name \in {n \in Fields : Given(n) # {}}} |->
             [reference |-> "", text |-> Means(CHOOSE k \in Given(key.field) : TRUE)]],
          document.settings)
HasChain == \E key \in DOMAIN document.values : Chained(key)

(* config.Load and resolve: in whatever order the section's map is ranged over, *)
(* a configuration that is accepted is an acceptable one, each field has the    *)
(* value its one key leads to, and none is taken from one of several sources.   *)
(* An acceptable one is never refused, unless a source is itself taken from a   *)
(* source: that one is accepted on one start and refused on another.            *)
LoadsWhatIsWritten ==
  /\ loaded = "yes" =>
       /\ Acceptable
       /\ \A name \in Fields : \A key \in Given(name) : TextOf(values, name) = Means(key)
  /\ loaded = "rejected" => ~Acceptable \/ HasChain
=============================================================================
