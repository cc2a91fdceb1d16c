--------------------------- MODULE Normalization ---------------------------
(***************************************************************************)
(* What the knowledge files say on a day, and how the Normalizer and the   *)
(* Validator use it (knowledge/service.py, normalizers/normalizer.py,      *)
(* validators/).                                                           *)
(*                                                                         *)
(* A knowledge item is in force from effective_from until the day before   *)
(* effective_to for the service that takes snapshots, until effective_to   *)
(* itself for the two stages that look items up in a snapshot.  A day is a *)
(* number.  A column value is atomic: a typography item applies to it when *)
(* its key is the whole value.  A set of items in the order of loading is a *)
(* set of their places, of which a lookup takes the lowest.                *)
(***************************************************************************)
EXTENDS Integers, Sequences, SequencesExt

CONSTANTS
    Items,   \* KnowledgeItems in the order of loading: [category, key, value, from, to]
    Nfkc,    \* what unicodedata.normalize("NFKC", value) makes of a value
    Always   \* effective_from or effective_to is None

ASSUME ItemsType ==
    /\ Items \in Seq({Items[i] : i \in DOMAIN Items})
    /\ \A i \in DOMAIN Items : {Items[i].from, Items[i].to} \subseteq Int \union {Always}

\* _FIELD_TO_CATEGORY: the semantic fields that have a dictionary.
DictionaryOf ==
    [name |-> "alias", rank |-> "rank", organization |-> "organization",
     position |-> "position"]

\* DEFAULT_CONFIDENCE_THRESHOLD, _METHOD_SCORE and _SEMANTIC_MATCH_SCORE.
NormalizerThreshold == 50
ScoreOf == [identity |-> 30, typography |-> 60, dictionary |-> 100]

\* _is_effective() of the service and _within_effective_range() of the stages.
IsEffective(item, day) ==
    /\ item.from # Always => day >= item.from
    /\ item.to   # Always => day < item.to

WithinEffectiveRange(item, day) ==
    /\ item.from # Always => day >= item.from
    /\ item.to   # Always => day <= item.to

\* Faulty: the snapshot hands on everything that was loaded.
EffectiveItemsUnfiltered(day) == DOMAIN Items

\* _effective_items(), the content of a snapshot.
EffectiveItems(day) == {i \in DOMAIN Items : IsEffective(Items[i], day)}

RulesOf(day) == {i \in EffectiveItems(day) : Items[i].category = "validation"}

\* The items a lookup may return; it returns the first.
Matches(category, key, snapshot) ==
    {i \in snapshot.items : /\ Items[i].category = category
                            /\ Items[i].key = key
                            /\ WithinEffectiveRange(Items[i], snapshot.asOf)}

First(found) == Items[Min(found)]

\* The semantic name of a column, as a sequence that is empty for None.
SemanticName(era, column, snapshot) ==
    LET found == Matches("layout", <<era, column>>, snapshot)
    IN  IF found = {} THEN <<>> ELSE <<First(found).value>>

\* Every typography item that occurs is applied, one after the other.
ApplyTypography(raw, snapshot) ==
    LET text[i \in 0..Len(Items)] ==
            IF i = 0 THEN [value |-> Nfkc[raw], used |-> {}]
            ELSE IF /\ i \in snapshot.items
                    /\ Items[i].category = "typography"
                    /\ Items[i].key = text[i - 1].value
                 THEN [value |-> Items[i].value, used |-> text[i - 1].used \union {Items[i]}]
                 ELSE text[i - 1]
    IN  text[Len(Items)]

\* The dictionary entries of a field, none when it has no dictionary.
Entries(semantic, value, snapshot) ==
    IF semantic # <<>> /\ Head(semantic) \in DOMAIN DictionaryOf
    THEN Matches(DictionaryOf[Head(semantic)], value, snapshot)
    ELSE {}

NormalizeField(era, column, raw, snapshot) ==
    LET text  == ApplyTypography(raw, snapshot)
        found == Entries(SemanticName(era, column, snapshot), text.value, snapshot)
    IN  IF found # {}
        THEN [value |-> First(found).value, method |-> "dictionary",
              used |-> text.used \union {First(found)}]
        ELSE [value  |-> text.value, used |-> text.used,
              method |-> IF text.used = {} THEN "identity" ELSE "typography"]

\* The fields of a record, column by column.
Normalize(era, raw, snapshot) ==
    [column \in DOMAIN raw |-> NormalizeField(era, column, raw[column], snapshot)]

\* The average score reaches the threshold and there is a field.
IsConfident(fields) ==
    /\ fields # <<>>
    /\ FoldLeft(LAMBDA sum, field : sum + ScoreOf[field.method], 0, fields)
           >= NormalizerThreshold * Len(fields)

AllowedValues(semantic, rules) ==
    {Items[i].value : i \in {k \in rules : Items[k].key = semantic}}

\* The columns with a semantic name whose value is not allowed.
Errors(era, fields, snapshot, rules) ==
    {column \in DOMAIN fields :
        LET semantic == SemanticName(era, column, snapshot)
            allowed  == AllowedValues(Head(semantic), rules)
        IN  /\ semantic # <<>>
            /\ allowed # {}
            /\ fields[column].value \notin allowed}

Validate(era, fields, snapshot, rules) ==
    IF Errors(era, fields, snapshot, rules) = {} THEN "passed" ELSE "failed"
=============================================================================
