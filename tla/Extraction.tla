----------------------------- MODULE Extraction -----------------------------
(***************************************************************************)
(* What CosmosLedger (src/cosmpy/clients/ledger.py) makes of a confirmed   *)
(* tx's raw_log: get_code_id and get_contract_address parse it with        *)
(* json.loads, search it with the recursive _find_item for the first dict  *)
(* that holds a string matching CODE_ID_RE or CONTRACT_ADDRESS_RE, and     *)
(* read that dict's "value": int() of it for a code id, or str() of it     *)
(* checked by is_valid_crypto_address for a contract address.              *)
(*                                                                         *)
(* A JSON document is a tree of lists, dicts (an ordered sequence of       *)
(* key/value entries, as Python dicts keep insertion order), strings and   *)
(* numbers.  A string is abstracted to the keyword it contains, if any,    *)
(* and its characters' classes: the regexes only tell lowercase letters,   *)
(* digits, newlines and other characters apart.  The logs are every tree  *)
(* of at most MaxNodes nodes over a few representative strings.            *)
(*                                                                         *)
(* This module is checked by TLC only: it declares RECURSIVE operators.    *)
(***************************************************************************)
EXTENDS Naturals, Sequences, SequencesExt

CONSTANTS
    SuffixLen,  \* the {39} of is_valid_crypto_address's pattern
    MaxNodes    \* the largest log tree considered

ASSUME ExtractionAssumption == SuffixLen \in Nat \ {0} /\ MaxNodes \in Nat \ {0}

(***************************************************************************)
(* Strings.  `word` is the keyword the string contains ("" for none):      *)
(* CODE_ID_RE = ".*code_id.*" and CONTRACT_ADDRESS_RE =                    *)
(* ".*contract_address.*" match a string that contains theirs.             *)
(***************************************************************************)
Str(w, cs) == [kind |-> "str", word |-> w, chars |-> cs]

Digits(n) == [i \in 1..n |-> "digit"]

\* The strings of a cosmwasm log: attribute keys, a code id, an address.
CodeIdKey   == Str("code_id", <<"lower", "other", "lower">>)
AddressKey  == Str("contract_address", <<"other", "lower", "other", "lower">>)
CodeIdValue == Str("", <<"digit", "digit">>)
Address     == Str("", <<"lower">> \o Digits(SuffixLen))
\* An address followed by a newline, as text read from a stream ends.
AddressNL   == Str("", <<"lower">> \o Digits(SuffixLen) \o <<"newline">>)

Number == [kind |-> "num"]

Leaves == {CodeIdKey, AddressKey, CodeIdValue, Address, AddressNL, Number}

\* Dict keys; "value" is the one get_code_id and get_contract_address read.
Keys == {"key", "value"}

List(items) == [kind |-> "list", items |-> items]
Dict(entries) == [kind |-> "dict", entries |-> entries]

(***************************************************************************)
(* The trees of exactly n nodes, with at most two children per node and    *)
(* distinct keys in a dict.                                                *)
(***************************************************************************)
RECURSIVE TreesOfSize(_)
TreesOfSize(n) ==
    IF n = 1 THEN Leaves \cup {List(<<>>), Dict(<<>>)}
    ELSE LET Pairs == UNION {TreesOfSize(k) \X TreesOfSize(n - 1 - k) : k \in 1..(n - 2)}
         IN  {List(<<a>>) : a \in TreesOfSize(n - 1)}
             \cup {List(<<p[1], p[2]>>) : p \in Pairs}
             \cup {Dict(<<<<k, a>>>>) : k \in Keys, a \in TreesOfSize(n - 1)}
             \cup {Dict(<<<<ks[1], p[1]>>, <<ks[2], p[2]>>>>) :
                      ks \in {ks \in Keys \X Keys : ks[1] # ks[2]}, p \in Pairs}

Trees == UNION {TreesOfSize(n) : n \in 1..MaxNodes}

\* The raw_log of a failed tx is its error text, which is not JSON.
NotJson == [kind |-> "notjson"]

\* The patterns and the two extractors that use them.
Kinds == {"code_id", "contract_address"}

\* re_pattern.match(v) for the extractor's pattern.
Matches(s, kind) == s.kind = "str" /\ s.word = kind

\* The path of the dict _find_item returns, or NoMatch for None.
NoMatch == <<0>>

(***************************************************************************)
(* _find_item(obj, re_pattern), returning the path of the dict it returns. *)
(* A list is searched item by item.  A dict is searched entry by entry: a  *)
(* string value that matches makes it the result, otherwise the value is   *)
(* searched.  Anything else gives None.                                    *)
(***************************************************************************)
RECURSIVE FindIn(_, _, _), FindInItems(_, _, _, _), FindInEntries(_, _, _, _)

FindInItems(items, i, kind, path) ==
    IF i > Len(items) THEN NoMatch
    ELSE LET r == FindIn(items[i], kind, Append(path, i))
         IN  IF r # NoMatch THEN r ELSE FindInItems(items, i + 1, kind, path)

\* Mutant: a dict is returned only after all its values were tried as strings.
FindInEntriesStringsFirst(entries, i, kind, path) ==
    IF \E j \in 1..Len(entries) : Matches(entries[j][2], kind) THEN path
    ELSE IF i > Len(entries) THEN NoMatch
    ELSE LET r == FindIn(entries[i][2], kind, Append(path, i))
         IN  IF r # NoMatch THEN r ELSE FindInEntries(entries, i + 1, kind, path)

\* Mutant: the matching string's own position is returned instead of its dict.
FindInEntriesReturnsLeaf(entries, i, kind, path) ==
    IF i > Len(entries) THEN NoMatch
    ELSE IF Matches(entries[i][2], kind) THEN Append(path, i)
    ELSE LET r == FindIn(entries[i][2], kind, Append(path, i))
         IN  IF r # NoMatch THEN r ELSE FindInEntries(entries, i + 1, kind, path)

FindInEntries(entries, i, kind, path) ==
    IF i > Len(entries) THEN NoMatch
    ELSE IF Matches(entries[i][2], kind) THEN path
    ELSE LET r == FindIn(entries[i][2], kind, Append(path, i))
         IN  IF r # NoMatch THEN r ELSE FindInEntries(entries, i + 1, kind, path)

FindIn(obj, kind, path) ==
    CASE obj.kind = "list" -> FindInItems(obj.items, 1, kind, path)
      [] obj.kind = "dict" -> FindInEntries(obj.entries, 1, kind, path)
      [] OTHER             -> NoMatch

FindItem(obj, kind) == FindIn(obj, kind, <<>>)

(***************************************************************************)
(* Nodes and paths: the reference definition of "first match in DFS        *)
(* order" is stated over them.                                             *)
(***************************************************************************)
Children(t) ==
    CASE t.kind = "list" -> t.items
      [] t.kind = "dict" -> [i \in 1..Len(t.entries) |-> t.entries[i][2]]
      [] OTHER           -> <<>>

RECURSIVE Node(_, _)
Node(t, p) == IF p = <<>> THEN t ELSE Node(Children(t)[Head(p)], Tail(p))

RECURSIVE PathsOf(_)
PathsOf(t) ==
    {<<>>} \cup UNION {{<<i>> \o q : q \in PathsOf(Children(t)[i])} :
                          i \in 1..Len(Children(t))}

\* Preorder: a node comes before its descendants and its later siblings.
PreorderLess(p, q) ==
    \/ IsStrictPrefix(p, q)
    \/ \E k \in 1..Len(p) : /\ k <= Len(q)
                            /\ SubSeq(p, 1, k - 1) = SubSeq(q, 1, k - 1)
                            /\ p[k] < q[k]

\* The reference: the dict holding the first matching string leaf in DFS order.
FirstDFSMatch(t, kind) ==
    LET hits == {p \in PathsOf(t) \ {<<>>} :
                    Node(t, Front(p)).kind = "dict" /\ Matches(Node(t, p), kind)}
    IN  IF hits = {} THEN NoMatch
        ELSE Front(CHOOSE p \in hits : \A q \in hits \ {p} : PreorderLess(p, q))

(***************************************************************************)
(* is_valid_crypto_address(address): re.compile("^[a-z]+[0-9a-z]{39}$")    *)
(* .match(address).  The prefix [a-z]+ may end anywhere, and Python's $    *)
(* also matches just before a final newline.                               *)
(***************************************************************************)
IsValidCryptoAddress(cs) ==
    \E k \in 1..Len(cs) :
        /\ \A i \in 1..k : cs[i] = "lower"
        /\ Len(cs) - k \in {SuffixLen, SuffixLen + 1}
        /\ \A i \in (k + 1)..(k + SuffixLen) : cs[i] \in {"lower", "digit"}
        /\ Len(cs) = k + SuffixLen \/ cs[Len(cs)] = "newline"

\* str(value): the characters of a string, or of the value's repr.
StrOf(v) ==
    CASE v.kind = "str" -> v.chars
      [] v.kind = "num" -> <<"digit">>
      [] OTHER          -> <<"other", "other">>

(***************************************************************************)
(* State: one call of get_code_id or get_contract_address.                 *)
(***************************************************************************)
Outcomes == {"none", "ok", "JSONDecodeError", "AssertionError", "KeyError",
             "ValueError", "TypeError"}

VARIABLES
    extractor,  \* which extractor runs
    rawLog,     \* response.tx_response.raw_log: a tree, or NotJson
    pc,         \* "parse", "find", "read", "convert" or "done"
    resDict,    \* the path _find_item returned, NoMatch for None
    value,      \* res_dict["value"]
    outcome,    \* how the call ended
    result      \* the characters of the returned code id or address, <<>> before

vars == <<extractor, rawLog, pc, resDict, value, outcome, result>>

NoValue == [kind |-> "none"]

TypeOK ==
    /\ extractor \in Kinds
    /\ rawLog \in Trees \cup {NotJson}
    /\ pc \in {"parse", "find", "read", "convert", "done"}
    \* _find_item returns a dict or None
    /\ resDict = NoMatch \/ (rawLog # NotJson /\ resDict \in PathsOf(rawLog)
                             /\ Node(rawLog, resDict).kind = "dict")
    /\ value \in Trees \cup {NoValue}
    /\ outcome \in Outcomes
    /\ result \in Seq({"lower", "digit", "newline", "other"})

Init ==
    /\ extractor \in Kinds
    /\ rawLog \in Trees \cup {NotJson}
    /\ pc = "parse"
    /\ resDict = NoMatch
    /\ value = NoValue
    /\ outcome = "none"
    /\ result = <<>>

Fail(e) == pc' = "done" /\ outcome' = e

\* raw_log = json.loads(response.tx_response.raw_log)
Parse ==
    /\ pc = "parse"
    /\ IF rawLog = NotJson THEN Fail("JSONDecodeError") ELSE pc' = "find" /\ UNCHANGED outcome
    /\ UNCHANGED <<extractor, rawLog, resDict, value, result>>

\* res_dict = CosmosLedger._find_item(raw_log, CODE_ID_RE or CONTRACT_ADDRESS_RE)
Find ==
    /\ pc = "find"
    /\ resDict' = FindItem(rawLog, extractor)
    /\ pc' = "read"
    /\ UNCHANGED <<extractor, rawLog, value, outcome, result>>

\* assert res_dict is not None, then res_dict["value"]
Read ==
    /\ pc = "read"
    /\ \/ resDict = NoMatch /\ Fail("AssertionError") /\ UNCHANGED value
       \/ /\ resDict # NoMatch
          /\ LET entries == Node(rawLog, resDict).entries
                 at == {i \in 1..Len(entries) : entries[i][1] = "value"}
             IN  IF at = {} THEN Fail("KeyError") /\ UNCHANGED value
                 ELSE /\ value' = entries[CHOOSE i \in at : TRUE][2]
                      /\ pc' = "convert"
                      /\ UNCHANGED outcome
    /\ UNCHANGED <<extractor, rawLog, resDict, result>>

(***************************************************************************)
(* get_code_id: int(value) takes a number or a string of digits, raises    *)
(* ValueError on other strings and TypeError on a list or a dict.          *)
(* get_contract_address: assert is_valid_crypto_address(str(value)), then  *)
(* return str(value).                                                      *)
(***************************************************************************)
Convert ==
    /\ pc = "convert"
    /\ IF extractor = "code_id"
       THEN CASE value.kind = "num" -> Fail("ok") /\ result' = StrOf(value)
              [] value.kind = "str" /\ \A i \in 1..Len(value.chars) : value.chars[i] = "digit"
                  /\ value.chars # <<>> -> Fail("ok") /\ result' = StrOf(value)
              [] value.kind = "str" -> Fail("ValueError") /\ UNCHANGED result
              [] OTHER -> Fail("TypeError") /\ UNCHANGED result
       ELSE IF IsValidCryptoAddress(StrOf(value))
            THEN Fail("ok") /\ result' = StrOf(value)
            ELSE Fail("AssertionError") /\ UNCHANGED result
    /\ UNCHANGED <<extractor, rawLog, resDict, value>>

Finished == pc = "done" /\ UNCHANGED vars

Next == Parse \/ Find \/ Read \/ Convert \/ Finished

Spec == Init /\ [][Next]_vars

-----------------------------------------------------------------------------
(***************************************************************************)
(* Properties.                                                             *)
(***************************************************************************)

(* _find_item returns the dict that holds the first string matching the    *)
(* pattern in depth-first order, as spec 8 and 9 describe the search: a    *)
(* match in an earlier entry's subtree wins over a later entry's string,   *)
(* and a string directly in a list is never a match.                       *)
FindItemIsFirstDFSMatch ==
    pc \in {"read", "convert", "done"} /\ rawLog # NotJson
        => resDict = FirstDFSMatch(rawLog, extractor)

(* Spec 8: validateAddressFormat accepts exactly <prefix><39 lowercase     *)
(* alphanumerics>, so get_contract_address returns only such a string.     *)
AddressHasExactFormat ==
    (pc = "done" /\ outcome = "ok" /\ extractor = "contract_address") =>
        \E k \in 1..Len(result) :
            /\ \A i \in 1..k : result[i] = "lower"
            /\ Len(result) = k + SuffixLen
            /\ \A i \in (k + 1)..Len(result) : result[i] \in {"lower", "digit"}

(* Spec 7: a malformed response is one where the extractor finds nothing   *)
(* or a parse fails; the workflows recover (instantiate) or fail on        *)
(* AssertionError and JSONDecodeError.  The extractors raise nothing else. *)
ExtractorRaisesOnlyMalformed ==
    pc = "done" => outcome \in {"ok", "AssertionError", "JSONDecodeError"}

=============================================================================
