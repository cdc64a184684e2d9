--------------------------- MODULE SettingsProofs ---------------------------
(***************************************************************************)
(* Proofs about Settings, for every watch list and every number of items,  *)
(* variables, radixes, styles and commands.                                *)
(***************************************************************************)
EXTENDS Settings, SequenceTheorems, TLAPS

-----------------------------------------------------------------------------
(* The inductive invariant.                                                *)

(* The lists of different items among the first n.                         *)
Lists(n) == {list \in Seq(1..n) : IsInjective(list)}

Options == UNION {[S -> Radixes] : S \in SUBSET Variables}

Updates(n) ==
    [key : {"watchList"}, value : Lists(n)]
        \cup [key : {"variableOptions"}, value : Options]
        \cup [key : {"displayStyle"}, value : Styles]

TypeInv ==
    /\ added \in Nat
    /\ config \in [watchList : Lists(added), variableOptions : Options, displayStyle : Styles]
    /\ updates \in Seq(Updates(added))
    /\ chosen \in Options

(* The position of the last update() of a setting, and the value that the  *)
(* setting has once all updates have taken effect: one of each.            *)
LastUpdate(key) ==
    {i \in 1..Len(updates) :
        /\ updates[i].key = key
        /\ \A j \in 1..Len(updates) : j > i => updates[j].key # key}

Upcoming(key) ==
    {updates[i].value : i \in LastUpdate(key)} \cup (IF Pending(key) THEN {} ELSE {config[key]})

(* What is upcoming is what the user wants, unless a command came before   *)
(* the effect of another could be seen.                                    *)
ListInv ==
    "watchList" \notin hasty => \A list \in Upcoming("watchList") : ToSet(list) = wanted

OptionsInv ==
    \A options \in Upcoming("variableOptions") :
        /\ "variableOptions" \notin hasty => options = chosen
        /\ \A v \in latest : v \in DOMAIN options /\ options[v] = chosen[v]

IInv == TypeInv /\ ListInv /\ OptionsInv
-----------------------------------------------------------------------------
(* Lists and options.                                                      *)

(* Appending an item that is not in the list.                              *)
LEMMA AppendNew ==
    ASSUME NEW n \in Nat, NEW list \in Lists(n)
    PROVE  /\ Append(list, n + 1) \in Lists(n + 1)
           /\ ToSet(Append(list, n + 1)) = ToSet(list) \cup {n + 1}
<1> DEFINE m == Len(list)
           longer == Append(list, n + 1)
<1>1. list \in Seq(1..n) /\ IsInjective(list)
  BY DEF Lists
<1>2. m \in Nat /\ DOMAIN list = 1..m /\ \A i \in 1..m : list[i] \in 1..n
  BY <1>1
<1>3. list \in Seq(1..(n + 1))
  <2>1. 1..n \subseteq 1..(n + 1)
    OBVIOUS
  <2> QED
    BY <1>1, <2>1
<1>4. /\ longer \in Seq(1..(n + 1)) /\ DOMAIN longer = 1..(m + 1) /\ longer[m + 1] = n + 1
      /\ \A i \in 1..m : longer[i] = list[i]
  BY <1>2, <1>3
<1>5. \A i \in 1..(m + 1) : i \in 1..m \/ i = m + 1
  BY <1>2
<1>6. \A i \in 1..m : list[i] # n + 1
  BY <1>2
<1>7. IsInjective(longer)
  BY <1>1, <1>2, <1>4, <1>5, <1>6 DEF IsInjective
<1>8. ToSet(longer) = ToSet(list) \cup {n + 1}
  <2>1. ASSUME NEW x \in ToSet(longer) PROVE x \in ToSet(list) \cup {n + 1}
    <3>1. PICK i \in 1..(m + 1) : x = longer[i]
      BY <1>4, <2>1 DEF ToSet
    <3> QED
      BY <1>2, <1>4, <1>5, <3>1 DEF ToSet
  <2>2. ASSUME NEW x \in ToSet(list) PROVE x \in ToSet(longer)
    <3>1. PICK i \in 1..m : x = list[i]
      BY <1>2, <2>2 DEF ToSet
    <3>2. i \in 1..(m + 1)
      BY <1>2
    <3> QED
      BY <1>4, <3>1, <3>2 DEF ToSet
  <2>3. n + 1 \in ToSet(longer)
    <3>1. m + 1 \in 1..(m + 1)
      BY <1>2
    <3> QED
      BY <1>4, <3>1 DEF ToSet
  <2> QED
    BY <2>1, <2>2, <2>3
<1> QED
  BY <1>4, <1>7, <1>8 DEF Lists

(* splice(): what is left of a list.                                       *)
LEMMA RemoveAtLeaves ==
    ASSUME NEW S, NEW s \in Seq(S), NEW k \in 1..Len(s)
    PROVE  /\ RemoveAt(s, k) \in Seq(S)
           /\ Len(RemoveAt(s, k)) = Len(s) - 1
           /\ \A i \in 1..(Len(s) - 1) : RemoveAt(s, k)[i] = IF i < k THEN s[i] ELSE s[i + 1]
<1> DEFINE before == SubSeq(s, 1, k - 1)
           after == SubSeq(s, k + 1, Len(s))
<1>1. Len(s) \in Nat /\ k \in Nat /\ 1 <= k /\ k <= Len(s)
  OBVIOUS
<1>2. before \in Seq(S) /\ Len(before) = k - 1 /\ \A i \in 1..(k - 1) : before[i] = s[i]
  OBVIOUS
<1>3. after \in Seq(S) /\ Len(after) = Len(s) - k /\ \A i \in 1..(Len(s) - k) : after[i] = s[k + i]
  OBVIOUS
<1>4. RemoveAt(s, k) = before \o after
  BY DEF RemoveAt
<1> HIDE DEF before, after
<1>5. before \o after \in Seq(S) /\ Len(before \o after) = Len(before) + Len(after)
  BY <1>2, <1>3, ConcatProperties
<1>6. Len(before) + Len(after) = Len(s) - 1
  BY <1>1, <1>2, <1>3
<1>7. ASSUME NEW i \in 1..(Len(s) - 1)
      PROVE  (before \o after)[i] = IF i < k THEN s[i] ELSE s[i + 1]
  <2>1. CASE i < k
    <3>1. i \in 1..(k - 1) /\ i \in 1..Len(before)
      BY <1>1, <1>2, <2>1
    <3>2. (before \o after)[i] = before[i]
      BY <1>2, <1>3, <3>1
    <3> QED
      BY <1>2, <2>1, <3>1, <3>2
  <2>2. CASE ~(i < k)
    <3> DEFINE j == i - (k - 1)
    <3>1. j \in 1..(Len(s) - k) /\ k + j = i + 1 /\ i = Len(before) + j /\ j \in 1..Len(after)
      BY <1>1, <1>2, <1>3, <2>2
    <3>2. (before \o after)[Len(before) + j] = after[j]
      BY <1>2, <1>3, <3>1
    <3>3. after[j] = s[k + j]
      BY <1>3, <3>1
    <3> QED
      BY <2>2, <3>1, <3>2, <3>3
  <2> QED
    BY <2>1, <2>2
<1> QED
  BY <1>4, <1>5, <1>6, <1>7

(* Removing from a list of different items removes one of them.            *)
LEMMA RemoveOne ==
    ASSUME NEW n \in Nat, NEW list \in Lists(n), NEW k \in DOMAIN list
    PROVE  /\ RemoveAt(list, k) \in Lists(n)
           /\ ToSet(RemoveAt(list, k)) = ToSet(list) \ {list[k]}
<1> DEFINE m == Len(list)
           left == RemoveAt(list, k)
           old(i) == IF i < k THEN i ELSE i + 1
<1>1. list \in Seq(1..n) /\ IsInjective(list)
  BY DEF Lists
<1>2. m \in Nat /\ DOMAIN list = 1..m /\ k \in 1..m
  BY <1>1
<1>3. left \in Seq(1..n) /\ Len(left) = m - 1
      /\ \A i \in 1..(m - 1) : left[i] = IF i < k THEN list[i] ELSE list[i + 1]
  BY <1>1, <1>2, RemoveAtLeaves
<1> HIDE DEF left
<1>4. DOMAIN left = 1..(m - 1)
  BY <1>3
<1>5. \A i \in 1..(m - 1) : old(i) \in 1..m /\ old(i) # k /\ left[i] = list[old(i)]
  BY <1>2, <1>3
<1>6. \A i, j \in 1..(m - 1) : old(i) = old(j) => i = j
  BY <1>2
<1>7. \A i \in 1..m : i # k => \E j \in 1..(m - 1) : old(j) = i
  <2> SUFFICES ASSUME NEW i \in 1..m, i # k
               PROVE  \E j \in 1..(m - 1) : old(j) = i
    OBVIOUS
  <2>1. CASE i < k
    BY <1>2, <2>1
  <2>2. CASE i > k
    <3>1. i - 1 \in 1..(m - 1) /\ old(i - 1) = i
      BY <1>2, <2>2
    <3> QED
      BY <3>1
  <2> QED
    BY <1>2, <2>1, <2>2
<1> HIDE DEF old
<1>8. IsInjective(left)
  <2>1. ASSUME NEW i \in 1..(m - 1), NEW j \in 1..(m - 1), left[i] = left[j] PROVE i = j
    <3>1. list[old(i)] = list[old(j)] /\ old(i) \in DOMAIN list /\ old(j) \in DOMAIN list
      BY <1>2, <1>5, <2>1
    <3>2. old(i) = old(j)
      BY <1>1, <3>1 DEF IsInjective
    <3> QED
      BY <1>6, <3>2
  <2> QED
    BY <1>4, <2>1 DEF IsInjective
<1>9. ASSUME NEW x \in ToSet(left) PROVE x \in ToSet(list) /\ x # list[k]
  <2>1. PICK i \in 1..(m - 1) : x = left[i]
    BY <1>4 DEF ToSet
  <2> QED
    BY <1>1, <1>2, <1>5, <2>1 DEF ToSet, IsInjective
<1>10. ASSUME NEW x \in ToSet(list), x # list[k] PROVE x \in ToSet(left)
  <2>1. PICK i \in 1..m : x = list[i]
    BY <1>2 DEF ToSet
  <2>2. PICK j \in 1..(m - 1) : old(j) = i
    BY <1>7, <1>10, <2>1
  <2> QED
    BY <1>4, <1>5, <2>1, <2>2 DEF ToSet
<1>11. ToSet(left) = ToSet(list) \ {list[k]}
  BY <1>9, <1>10
<1> QED
  BY <1>3, <1>8, <1>11 DEF Lists, left

(* A list remains one when more items are known.                           *)
LEMMA MoreItems ==
    ASSUME NEW n \in Nat
    PROVE  Lists(n) \subseteq Lists(n + 1) /\ Updates(n) \subseteq Updates(n + 1)
<1>1. 1..n \subseteq 1..(n + 1)
  OBVIOUS
<1>2. Seq(1..n) \subseteq Seq(1..(n + 1))
  BY <1>1
<1>3. Lists(n) \subseteq Lists(n + 1)
  BY <1>2 DEF Lists
<1> QED
  BY <1>3 DEF Updates

(* An option is set among the others.                                      *)
LEMMA SetOptionType ==
    ASSUME NEW options \in Options, NEW v \in Variables, NEW radix \in Radixes
    PROVE  /\ SetOption(options, v, radix) \in Options
           /\ v \in DOMAIN SetOption(options, v, radix)
           /\ SetOption(options, v, radix)[v] = radix
<1>1. PICK S \in SUBSET Variables : options \in [S -> Radixes]
  BY DEF Options
<1>2. SetOption(options, v, radix) = [w \in S \cup {v} |-> IF w = v THEN radix ELSE options[w]]
  BY <1>1 DEF SetOption
<1>3. S \cup {v} \in SUBSET Variables
  OBVIOUS
<1>4. SetOption(options, v, radix) \in [S \cup {v} -> Radixes]
  BY <1>1, <1>2
<1> QED
  BY <1>2, <1>3, <1>4 DEF Options

-----------------------------------------------------------------------------
(* Updates.                                                                *)

(* A setting nobody updates has its upcoming value.                        *)
LEMMA NotPending ==
    ASSUME NEW key, ~Pending(key)
    PROVE  config[key] \in Upcoming(key)
  BY DEF Upcoming

(* An update() is the last of its setting, and leaves the others alone.    *)
LEMMA UpdateUpcoming ==
    ASSUME TypeInv, NEW n \in Nat, Updates(added) \subseteq Updates(n),
           NEW key, NEW value, [key |-> key, value |-> value] \in Updates(n),
           Update(key, value), config' = config
    PROVE  /\ updates' \in Seq(Updates(n))
           /\ \A v \in Upcoming(key)' : v = value
           /\ \A other : other # key => Upcoming(other)' \subseteq Upcoming(other)
<1> DEFINE u == [key |-> key, value |-> value]
           m == Len(updates)
<1>1. updates \in Seq(Updates(n)) /\ m \in Nat
  BY DEF TypeInv
<1>2. /\ updates' \in Seq(Updates(n)) /\ Len(updates') = m + 1 /\ updates'[m + 1] = u
      /\ \A i \in 1..m : updates'[i] = updates[i]
  BY <1>1 DEF Update
<1>3. u.key = key /\ u.value = value
  OBVIOUS
<1> HIDE DEF u
<1>4. /\ m + 1 \in 1..(m + 1) /\ DOMAIN updates = 1..m /\ DOMAIN updates' = 1..(m + 1)
      /\ \A i \in 1..(m + 1) : i \in 1..m \/ i = m + 1
      /\ \A i \in 1..m : i \in 1..(m + 1) /\ i # m + 1 /\ m + 1 > i
  BY <1>1, <1>2
<1>5. ASSUME NEW v \in Upcoming(key)' PROVE v = value
  <2>1. Pending(key)'
    BY <1>2, <1>3, <1>4 DEF Pending
  <2>2. PICK i \in LastUpdate(key)' : v = updates'[i].value
    BY <1>5, <2>1 DEF Upcoming
  <2>3. i = m + 1
    BY <1>2, <1>3, <1>4, <2>2 DEF LastUpdate
  <2> QED
    BY <1>2, <1>3, <2>2, <2>3
<1>6. ASSUME NEW other, other # key, NEW v \in Upcoming(other)' PROVE v \in Upcoming(other)
  <2>1. Pending(other)' <=> Pending(other)
    BY <1>2, <1>3, <1>4, <1>6 DEF Pending
  <2>2. CASE ~Pending(other)
    <3>1. LastUpdate(other)' = {}
      BY <1>2, <1>4, <2>1, <2>2 DEF LastUpdate, Pending
    <3> QED
      BY <1>6, <2>1, <2>2, <3>1 DEF Upcoming
  <2>3. CASE Pending(other)
    <3>1. PICK i \in LastUpdate(other)' : v = updates'[i].value
      BY <1>6, <2>1, <2>3 DEF Upcoming
    <3>2. i \in 1..m
      BY <1>2, <1>3, <1>4, <1>6, <3>1 DEF LastUpdate
    <3>3. i \in LastUpdate(other) /\ v = updates[i].value
      BY <1>2, <1>4, <3>1, <3>2 DEF LastUpdate
    <3> QED
      BY <3>3 DEF Upcoming
  <2> QED
    BY <2>2, <2>3
<1> QED
  BY <1>2, <1>5, <1>6

(* An update that takes effect changes no upcoming value.                  *)
LEMMA OnDidChangeUpcoming ==
    ASSUME TypeInv, OnDidChange
    PROVE  /\ updates' \in Seq(Updates(added))
           /\ config' \in [watchList : Lists(added), variableOptions : Options, displayStyle : Styles]
           /\ \A key \in {"watchList", "variableOptions"} : Upcoming(key)' \subseteq Upcoming(key)
<1> DEFINE m == Len(updates)
           head == Head(updates)
           Configs == [watchList : Lists(added), variableOptions : Options, displayStyle : Styles]
<1>1. updates \in Seq(Updates(added)) /\ updates # <<>> /\ config \in Configs
      /\ config' = [config EXCEPT ![head.key] = head.value] /\ updates' = Tail(updates)
  BY DEF TypeInv, OnDidChange
<1>2. /\ m \in Nat /\ 1 \in 1..m /\ head = updates[1] /\ head \in Updates(added)
      /\ updates' \in Seq(Updates(added)) /\ Len(updates') = m - 1
      /\ \A i \in 1..(m - 1) : i + 1 \in 1..m /\ updates'[i] = updates[i + 1]
  BY <1>1
<1>3. /\ DOMAIN updates = 1..m /\ DOMAIN updates' = 1..(m - 1)
      /\ \A i \in 1..m : i = 1 \/ i - 1 \in 1..(m - 1)
      /\ \A i \in 1..(m - 1) : i \in Nat /\ i + 1 # 1 /\ i + 1 > 1
      /\ \A i \in 1..m : i \in Nat /\ (i - 1) + 1 = i
  BY <1>1, <1>2
<1> HIDE DEF head
<1>4. /\ config' \in Configs
      /\ \A key \in {"watchList", "variableOptions"} :
           config'[key] = IF head.key = key THEN head.value ELSE config[key]
  <2>1. \/ head.key = "watchList" /\ head.value \in Lists(added)
        \/ head.key = "variableOptions" /\ head.value \in Options
        \/ head.key = "displayStyle" /\ head.value \in Styles
    BY <1>2 DEF Updates
  <2> QED
    BY <1>1, <2>1
<1>5. ASSUME NEW key \in {"watchList", "variableOptions"}, NEW v \in Upcoming(key)'
      PROVE  v \in Upcoming(key)
  <2>1. CASE Pending(key)'
    <3>1. PICK i \in LastUpdate(key)' : v = updates'[i].value
      BY <1>5, <2>1 DEF Upcoming
    <3>2. i \in 1..(m - 1) /\ i + 1 \in 1..m /\ updates[i + 1].key = key /\ v = updates[i + 1].value
      BY <1>2, <3>1 DEF LastUpdate
    <3>3. ASSUME NEW j \in 1..m, j > i + 1 PROVE updates[j].key # key
      <4>1. j - 1 \in 1..Len(updates') /\ j - 1 > i /\ updates[j] = updates'[j - 1]
        BY <1>2, <1>3, <3>2, <3>3
      <4> QED
        BY <3>1, <4>1 DEF LastUpdate
    <3>4. i + 1 \in LastUpdate(key)
      BY <3>2, <3>3 DEF LastUpdate
    <3> QED
      BY <3>2, <3>4 DEF Upcoming
  <2>2. CASE ~Pending(key)'
    <3>1. LastUpdate(key)' = {} /\ \A i \in 1..(m - 1) : updates'[i].key # key
      BY <1>2, <1>3, <2>2 DEF LastUpdate, Pending
    <3>2. v = config'[key]
      BY <1>5, <2>2, <3>1 DEF Upcoming
    <3>3. ASSUME NEW j \in 1..m, j > 1 PROVE updates[j].key # key
      <4>1. j - 1 \in 1..(m - 1) /\ updates[j] = updates'[j - 1]
        BY <1>2, <1>3, <3>3
      <4> QED
        BY <3>1, <4>1
    <3>4. CASE head.key = key
      <4>1. 1 \in LastUpdate(key)
        BY <1>2, <3>3, <3>4 DEF LastUpdate
      <4>2. v = updates[1].value
        BY <1>2, <1>4, <3>2, <3>4
      <4> QED
        BY <4>1, <4>2 DEF Upcoming
    <3>5. CASE head.key # key
      <4>1. ~Pending(key)
        BY <1>2, <1>3, <3>3, <3>5 DEF Pending
      <4>2. v = config[key]
        BY <1>4, <3>2, <3>5
      <4> QED
        BY <4>1, <4>2, NotPending
    <3> QED
      BY <3>4, <3>5
  <2> QED
    BY <2>1, <2>2
<1> QED
  BY <1>2, <1>4, <1>5

-----------------------------------------------------------------------------
(* Every step keeps the invariant.                                         *)

(* A command on the watch list keeps what is said of the options, and the  *)
(* other way round, and a change of the style keeps both.                  *)
LEMMA OthersKept ==
    ASSUME NEW key, OptionsInv, ListInv, hasty \subseteq hasty',
           \A other : other # key => Upcoming(other)' \subseteq Upcoming(other)
    PROVE  /\ key # "variableOptions" /\ UNCHANGED <<chosen, latest>> => OptionsInv'
           /\ key # "watchList" /\ UNCHANGED wanted => ListInv'
  BY DEF OptionsInv, ListInv

(* watchVariable appends an item that is new.                              *)
LEMMA AppendItemKeeps == IInv /\ AppendItem => IInv'
<1> SUFFICES ASSUME IInv, AppendItem PROVE IInv'
  OBVIOUS
<1> DEFINE list == config.watchList
           longer == Append(list, added + 1)
<1>1. TypeInv /\ ListInv /\ OptionsInv /\ added \in Nat /\ list \in Lists(added)
  BY DEF IInv, TypeInv
<1>2. /\ config' = config /\ added' = added + 1 /\ Update("watchList", longer)
      /\ wanted' = wanted \cup {added + 1} /\ UNCHANGED <<chosen, latest>>
      /\ hasty' = IF Pending("watchList") THEN hasty \cup {"watchList"} ELSE hasty
  BY DEF AppendItem, Click
<1>3. longer \in Lists(added + 1) /\ ToSet(longer) = ToSet(list) \cup {added + 1}
  BY <1>1, AppendNew
<1>4. Lists(added) \subseteq Lists(added + 1) /\ Updates(added) \subseteq Updates(added + 1)
  BY <1>1, MoreItems
<1>5. /\ updates' \in Seq(Updates(added + 1))
      /\ \A v \in Upcoming("watchList")' : v = longer
      /\ \A other : other # "watchList" => Upcoming(other)' \subseteq Upcoming(other)
  <2>1. [key |-> "watchList", value |-> longer] \in Updates(added + 1)
    BY <1>3 DEF Updates
  <2>2. added + 1 \in Nat
    BY <1>1
  <2> QED
    BY <1>1, <1>2, <1>4, <2>1, <2>2, UpdateUpcoming
<1>6. TypeInv'
  <2>1. config \in [watchList : Lists(added + 1), variableOptions : Options, displayStyle : Styles]
    BY <1>1, <1>4 DEF TypeInv
  <2> QED
    BY <1>1, <1>2, <1>5, <2>1 DEF TypeInv
<1>7. ListInv'
  <2>1. ~Pending("watchList") /\ "watchList" \notin hasty => ToSet(list) = wanted
    BY <1>1, NotPending DEF ListInv
  <2> QED
    BY <1>2, <1>3, <1>5, <2>1 DEF ListInv
<1>8. OptionsInv'
  <2>1. Upcoming("variableOptions")' \subseteq Upcoming("variableOptions")
    BY <1>5
  <2>2. ("variableOptions" \notin hasty' => "variableOptions" \notin hasty) /\ UNCHANGED <<chosen, latest>>
    BY <1>2
  <2> QED
    BY <1>1, <2>1, <2>2 DEF OptionsInv
<1> QED
  BY <1>6, <1>7, <1>8 DEF IInv

(* unWatchVariable removes the item that is shown at its index, if the     *)
(* list is still the one that is shown.                                    *)
LEMMA RemoveItemKeeps ==
    ASSUME IInv, NEW shown \in tree, RemoveItem(shown.child)
    PROVE  IInv'
<1> DEFINE list == config.watchList
           child == shown.child
           shorter == IF child.index \in DOMAIN list THEN RemoveAt(list, child.index) ELSE list
           early == Pending("watchList") \/ {s.child : s \in tree} # ShownChildren(list)
<1>1. TypeInv /\ ListInv /\ OptionsInv /\ added \in Nat /\ list \in Lists(added)
  BY DEF IInv, TypeInv
<1>2. /\ config' = config /\ added' = added /\ Update("watchList", shorter)
      /\ wanted' = wanted \ {child.item} /\ UNCHANGED <<chosen, latest>>
      /\ hasty' = IF early THEN hasty \cup {"watchList"} ELSE hasty
  BY DEF RemoveItem, Click
<1>3. shorter \in Lists(added)
  BY <1>1, RemoveOne
<1>4. /\ updates' \in Seq(Updates(added))
      /\ \A v \in Upcoming("watchList")' : v = shorter
      /\ \A other : other # "watchList" => Upcoming(other)' \subseteq Upcoming(other)
  <2>1. [key |-> "watchList", value |-> shorter] \in Updates(added)
    BY <1>3 DEF Updates
  <2> QED
    BY <1>1, <1>2, <2>1, UpdateUpcoming
<1>5. TypeInv'
  BY <1>1, <1>2, <1>4 DEF TypeInv
<1>6. ASSUME ~early, "watchList" \notin hasty
      PROVE  ToSet(shorter) = wanted \ {child.item}
  <2>1. ToSet(list) = wanted
    BY <1>1, <1>6, NotPending DEF ListInv
  <2>2. child \in ShownChildren(list)
    BY <1>6
  <2>3. child.index \in DOMAIN list /\ child.item = list[child.index]
    BY <2>2 DEF ShownChildren
  <2>4. ToSet(RemoveAt(list, child.index)) = ToSet(list) \ {list[child.index]}
    BY <1>1, <2>3, RemoveOne
  <2> QED
    BY <2>1, <2>3, <2>4
<1> HIDE DEF early, shorter
<1>7. ListInv'
  BY <1>2, <1>4, <1>6 DEF ListInv
<1>8. OptionsInv'
  <2>1. hasty \subseteq hasty'
    BY <1>2
  <2>2. Upcoming("variableOptions")' \subseteq Upcoming("variableOptions")
    BY <1>4
  <2>3. OptionsInv /\ UNCHANGED <<chosen, latest>>
    BY <1>1, <1>2
  <2> QED
    BY <2>1, <2>2, <2>3 DEF OptionsInv
<1> QED
  BY <1>5, <1>7, <1>8 DEF IInv

(* setRadix.                                                               *)
LEMMA SetRadixKeeps ==
    ASSUME IInv, NEW v \in Variables, NEW radix \in Radixes, SetRadix(v, radix)
    PROVE  IInv'
<1> DEFINE options == SetOption(config.variableOptions, v, radix)
<1>1. TypeInv /\ ListInv /\ OptionsInv /\ config.variableOptions \in Options /\ chosen \in Options
      /\ added \in Nat
  BY DEF IInv, TypeInv
<1>2. /\ config' = config /\ added' = added /\ Update("variableOptions", options)
      /\ chosen' = SetOption(chosen, v, radix) /\ latest' = {v} /\ UNCHANGED wanted
      /\ hasty' = IF Pending("variableOptions") THEN hasty \cup {"variableOptions"} ELSE hasty
  BY DEF SetRadix, Click
<1>3. options \in Options /\ v \in DOMAIN options /\ options[v] = radix
  BY <1>1, SetOptionType
<1>4. chosen' \in Options /\ chosen'[v] = radix
  BY <1>1, <1>2, SetOptionType
<1>5. /\ updates' \in Seq(Updates(added))
      /\ \A o \in Upcoming("variableOptions")' : o = options
      /\ \A other : other # "variableOptions" => Upcoming(other)' \subseteq Upcoming(other)
  <2>1. [key |-> "variableOptions", value |-> options] \in Updates(added)
    BY <1>3 DEF Updates
  <2> QED
    BY <1>1, <1>2, <2>1, UpdateUpcoming
<1>6. TypeInv'
  BY <1>1, <1>2, <1>4, <1>5 DEF TypeInv
<1>7. ~Pending("variableOptions") /\ "variableOptions" \notin hasty => options = chosen'
  BY <1>1, <1>2, NotPending DEF OptionsInv
<1>8. OptionsInv'
  BY <1>2, <1>3, <1>4, <1>5, <1>7 DEF OptionsInv
<1>9. ListInv'
  <2>1. hasty \subseteq hasty'
    BY <1>2
  <2> QED
    BY <1>1, <1>2, <1>5, <2>1, OthersKept
<1> QED
  BY <1>6, <1>8, <1>9 DEF IInv

(* The user edits the display style.                                       *)
LEMMA SetDisplayStyleKeeps ==
    ASSUME IInv, NEW style \in Styles, SetDisplayStyle(style)
    PROVE  IInv'
<1>1. TypeInv /\ ListInv /\ OptionsInv /\ added \in Nat
  BY DEF IInv, TypeInv
<1>2. /\ config' = config /\ Update("displayStyle", style) /\ hasty' = hasty
      /\ UNCHANGED <<added, wanted, chosen, latest>>
  BY DEF SetDisplayStyle, Click
<1>3. [key |-> "displayStyle", value |-> style] \in Updates(added)
  BY DEF Updates
<1>4. /\ updates' \in Seq(Updates(added))
      /\ \A other : other # "displayStyle" => Upcoming(other)' \subseteq Upcoming(other)
  BY <1>1, <1>2, <1>3, UpdateUpcoming
<1>5. TypeInv'
  BY <1>1, <1>2, <1>4 DEF TypeInv
<1>6. ListInv' /\ OptionsInv'
  BY <1>1, <1>2, <1>4, OthersKept
<1> QED
  BY <1>5, <1>6 DEF IInv

(* An update takes effect.                                                 *)
LEMMA OnDidChangeKeeps == IInv /\ OnDidChange => IInv'
<1> SUFFICES ASSUME IInv, OnDidChange PROVE IInv'
  OBVIOUS
<1>1. TypeInv /\ ListInv /\ OptionsInv /\ UNCHANGED <<added, wanted, chosen, latest, hasty>>
  BY DEF IInv, OnDidChange
<1>2. /\ updates' \in Seq(Updates(added))
      /\ config' \in [watchList : Lists(added), variableOptions : Options, displayStyle : Styles]
      /\ Upcoming("watchList")' \subseteq Upcoming("watchList")
      /\ Upcoming("variableOptions")' \subseteq Upcoming("variableOptions")
  BY <1>1, OnDidChangeUpcoming
<1>3. TypeInv'
  BY <1>1, <1>2 DEF TypeInv
<1>4. ListInv' /\ OptionsInv'
  BY <1>1, <1>2 DEF ListInv, OptionsInv
<1> QED
  BY <1>3, <1>4 DEF IInv

(* Building the tree changes no setting.                                   *)
LEMMA TreeKeeps ==
    ASSUME IInv, UNCHANGED <<config, updates, added, wanted, chosen, latest, hasty>>
    PROVE  IInv'
  BY DEF IInv, TypeInv, ListInv, OptionsInv, Upcoming, LastUpdate, Pending

(* At first the list has the items of an earlier session.                  *)
LEMMA InitKeeps == Init => IInv
<1> SUFFICES ASSUME Init PROVE IInv
  OBVIOUS
<1> DEFINE list == [i \in 1..Stored |-> i]
<1>1. PICK style \in Styles :
        config = [watchList |-> list, variableOptions |-> NoOptions, displayStyle |-> style]
  BY DEF Init
<1>2. Stored \in Nat
  BY SettingsAssumption
<1>3. list \in Lists(Stored) /\ ToSet(list) = 1..Stored
  <2>1. list \in Seq(1..Stored) /\ DOMAIN list = 1..Stored
    BY <1>2
  <2>2. IsInjective(list)
    BY <2>1 DEF IsInjective
  <2>3. ToSet(list) = 1..Stored
    BY <2>1 DEF ToSet
  <2> QED
    BY <2>1, <2>2, <2>3 DEF Lists
<1>4. NoOptions \in Options
  <2>1. NoOptions \in [{} -> Radixes]
    BY DEF NoOptions
  <2> QED
    BY <2>1 DEF Options
<1>5. TypeInv
  <2>1. updates = <<>> /\ added = Stored /\ chosen = NoOptions
    BY DEF Init
  <2>2. updates \in Seq(Updates(added))
    BY <2>1
  <2> QED
    BY <1>1, <1>2, <1>3, <1>4, <2>1, <2>2 DEF TypeInv
<1>6. \A key : ~Pending(key) /\ LastUpdate(key) = {}
  BY DEF Init, Pending, LastUpdate
<1>7. Upcoming("watchList") = {list} /\ Upcoming("variableOptions") = {NoOptions}
  BY <1>1, <1>6 DEF Upcoming
<1>8. ListInv /\ OptionsInv
  BY <1>3, <1>7 DEF Init, ListInv, OptionsInv
<1> QED
  BY <1>5, <1>8 DEF IInv

(* Every step keeps the invariant.                                         *)
LEMMA NextKeeps == IInv /\ [Next]_vars => IInv'
<1> SUFFICES ASSUME IInv, [Next]_vars PROVE IInv'
  OBVIOUS
<1>1. CASE Next
  <2>1. CASE GetChildren \/ GetTreeItems
    BY <2>1, TreeKeeps DEF GetChildren, GetTreeItems
  <2> QED
    BY <1>1, <2>1, AppendItemKeeps, RemoveItemKeeps, SetRadixKeeps, SetDisplayStyleKeeps,
       OnDidChangeKeeps DEF Next
<1>2. CASE UNCHANGED vars
  BY <1>2, TreeKeeps DEF vars
<1> QED
  BY <1>1, <1>2

(* The inductive invariant holds of every behaviour of the settings.       *)
THEOREM Inductive == Spec => []IInv
  BY InitKeeps, NextKeeps, PTL DEF Spec

(* A user who always waited gets the watch list that was asked for         *)
(* (watch.ts:27-35, sidebar.ts:228, 255).                                  *)
THEOREM ListStaysAsWanted == Spec => []ListAsWanted
<1>1. IInv => ListAsWanted
  BY NotPending DEF IInv, ListInv, ListAsWanted
<1> QED
  BY <1>1, Inductive, PTL

(* Every variable has the radix chosen for it if the user always waited;   *)
(* the one whose radix was chosen last has it in any case                  *)
(* (options.ts:20-31).                                                     *)
THEOREM OptionsStayAsChosen == Spec => []OptionsAsChosen
<1>1. IInv => OptionsAsChosen
  BY NotPending DEF IInv, OptionsInv, OptionsAsChosen, Radix
<1> QED
  BY <1>1, Inductive, PTL
=============================================================================
