------------------------------ MODULE Settings ------------------------------
(***************************************************************************)
(* What the extension keeps in the configuration of VS Code: the watch     *)
(* list (watch.ts), the options of variables (options.ts) and the display  *)
(* style, with the commands that change them (extension.ts:63-75) and the  *)
(* watch subtree that shows them (sidebar.ts:211-261, 273-278, 293-297).   *)
(*                                                                         *)
(* An update takes effect later, in the order of the calls; until then     *)
(* get() returns the old value.  Watch items are numbered, so that two of  *)
(* the same variable differ; the first ones are from an earlier session,   *)
(* whose design may have had other variables.                              *)
(***************************************************************************)
EXTENDS Integers, Sequences, SequencesExt

CONSTANTS
    MaxItems,    \* bound: watch items
    Stored,      \* how many of them are in the list at first
    VariableOf,  \* the variable of each item
    Missing,     \* variables the design does not have
    Radixes,     \* what setRadix offers
    Styles,      \* display styles
    MaxClicks    \* bound: commands of the user

Items == 1..MaxItems
Variables == {VariableOf[item] : item \in Items}

ASSUME SettingsAssumption ==
    /\ MaxItems \in Nat /\ Stored \in 0..MaxItems /\ MaxClicks \in Nat
    /\ DOMAIN VariableOf = Items
    /\ \A item \in Items : VariableOf[item] \in Missing => item <= Stored
    /\ Radixes \subseteq Nat

VARIABLES
    config,    \* the settings: watchList, variableOptions, displayStyle
    updates,   \* update() calls that have not taken effect
    tree,      \* the children VS Code shows, each with its metadata.index
    outdated,  \* VS Code was told that the tree has changed
    children,  \* the list a getChildren() that is under way goes through
    building,  \* whether one is
    added,     \* the latest item
    clicks,
    wanted,    \* history: items in the list at first or added, and not removed
    chosen,    \* history: the radix the user chose last, for each variable
    latest,    \* history: the variables whose radix was chosen last, if any
    hasty      \* history: settings changed by a command before the user could
               \* see the change before it

vars == <<config, updates, tree, outdated, children, building, added, clicks,
          wanted, chosen, latest, hasty>>

NoOptions == [v \in {} |-> 10]

Init ==
    /\ \E style \in Styles :
         config = [watchList |-> [i \in 1..Stored |-> i],
                   variableOptions |-> NoOptions,
                   displayStyle |-> style]
    /\ updates = <<>>
    /\ tree = {}
    /\ outdated = TRUE
    /\ children = <<>>
    /\ building = FALSE
    /\ added = Stored
    /\ clicks = 0
    /\ wanted = 1..Stored
    /\ chosen = NoOptions
    /\ latest = {}
    /\ hasty = {}

(* WorkspaceConfiguration.update()                                         *)
Update(key, value) == updates' = Append(updates, [key |-> key, value |-> value])

Pending(key) == \E i \in DOMAIN updates : updates[i].key = key

(* A command that changes a setting; `early' says that the user did not    *)
(* wait for the change before.                                             *)
Click(key, early) ==
    /\ clicks < MaxClicks
    /\ clicks' = clicks + 1
    /\ hasty' = IF early THEN hasty \cup {key} ELSE hasty
    /\ UNCHANGED <<config, tree, outdated, children, building>>

-----------------------------------------------------------------------------
(* Mutant: the index counts the items that are shown.                      *)
ShownChildrenRenumbered(list) ==
    LET known == SelectSeq(list, LAMBDA item : VariableOf[item] \notin Missing)
    IN  {[item |-> known[i], index |-> i] : i \in DOMAIN known}

(* Each child keeps the index it has in the list, the missing ones counted.*)
ShownChildren(list) ==
    {[item |-> list[i], index |-> i] :
        i \in {j \in DOMAIN list : VariableOf[list[j]] \notin Missing}}

(* What is shown for a child: its variable in its radix and in the style.  *)
Radix(v) == IF v \in DOMAIN config.variableOptions THEN config.variableOptions[v] ELSE 10

Rendered(shown) ==
    {[child |-> child, radix |-> Radix(VariableOf[child.item]), style |-> config.displayStyle] :
        child \in shown}

(* watchVariable, on a variable of the design.                             *)
AppendItem ==
    /\ Click("watchList", Pending("watchList"))
    /\ added < MaxItems
    /\ added' = added + 1
    /\ Update("watchList", Append(config.watchList, added + 1))
    /\ wanted' = wanted \cup {added + 1}
    /\ UNCHANGED <<chosen, latest>>

(* unWatchVariable, on an item that is shown: splice() at its index.       *)
RemoveItem(child) ==
    LET list == config.watchList
    IN  /\ Click("watchList", Pending("watchList")
                        \/ {shown.child : shown \in tree} # ShownChildren(list))
        /\ Update("watchList", IF child.index \in DOMAIN list THEN RemoveAt(list, child.index) ELSE list)
        /\ wanted' = wanted \ {child.item}
        /\ UNCHANGED <<added, chosen, latest>>

SetOption(options, v, radix) ==
    [w \in DOMAIN options \cup {v} |-> IF w = v THEN radix ELSE options[w]]

(* Mutant: the options of the other variables are forgotten.               *)
SetRadixAlone(v, radix) ==
    /\ Click("variableOptions", Pending("variableOptions"))
    /\ Update("variableOptions", SetOption(NoOptions, v, radix))
    /\ chosen' = SetOption(chosen, v, radix)
    /\ latest' = {v}
    /\ UNCHANGED <<added, wanted>>

(* setRadix, on a variable of the design.                                  *)
SetRadix(v, radix) ==
    /\ Click("variableOptions", Pending("variableOptions"))
    /\ Update("variableOptions", SetOption(config.variableOptions, v, radix))
    /\ chosen' = SetOption(chosen, v, radix)
    /\ latest' = {v}
    /\ UNCHANGED <<added, wanted>>

(* The user edits the setting.                                             *)
SetDisplayStyle(style) ==
    /\ Click("displayStyle", FALSE)
    /\ Update("displayStyle", style)
    /\ UNCHANGED <<added, wanted, chosen, latest>>

-----------------------------------------------------------------------------
(* Mutant: a change of the options is not shown.                           *)
TreeChangedByList == config'.watchList # config.watchList

(* The sidebar has listeners for all the settings.                         *)
TreeChanged == config' # config

(* An update takes effect, and the sidebar is told.                        *)
OnDidChange ==
    /\ updates # <<>>
    /\ LET update == Head(updates)
       IN  config' = [config EXCEPT ![update.key] = update.value]
    /\ updates' = Tail(updates)
    /\ outdated' = (outdated \/ TreeChanged)
    /\ UNCHANGED <<tree, children, building, added, clicks, wanted, chosen, latest, hasty>>

(* VS Code asks for the children again, and renders them when it has them. *)
GetChildren ==
    /\ outdated
    /\ outdated' = FALSE
    /\ building' = TRUE
    /\ children' = config.watchList
    /\ UNCHANGED <<config, updates, tree, added, clicks, wanted, chosen, latest, hasty>>

GetTreeItems ==
    /\ building
    /\ building' = FALSE
    /\ tree' = Rendered(ShownChildren(children))
    /\ UNCHANGED <<config, updates, outdated, children, added, clicks, wanted, chosen, latest, hasty>>

Next ==
    \/ AppendItem
    \/ \E shown \in tree : RemoveItem(shown.child)
    \/ \E v \in Variables \ Missing, radix \in Radixes : SetRadix(v, radix)
    \/ \E style \in Styles : SetDisplayStyle(style)
    \/ OnDidChange
    \/ GetChildren
    \/ GetTreeItems

Spec == Init /\ [][Next]_vars

Fairness == WF_vars(OnDidChange) /\ WF_vars(GetChildren) /\ WF_vars(GetTreeItems)

FairSpec == Spec /\ Fairness

-----------------------------------------------------------------------------
(* A user who always waited gets the list that was asked for: it holds     *)
(* exactly the items added and not removed, whatever items of it the       *)
(* design does not have, and whatever was done to other settings in the    *)
(* meantime (watch.ts:27-35, sidebar.ts:228, 255).                         *)
ListAsWanted ==
    ~Pending("watchList") /\ "watchList" \notin hasty => ToSet(config.watchList) = wanted

(* Every variable has the radix chosen for it if the user always waited;   *)
(* the one whose radix was chosen last has it in any case                  *)
(* (options.ts:20-31).                                                     *)
OptionsAsChosen ==
    ~Pending("variableOptions") =>
        /\ "variableOptions" \notin hasty => config.variableOptions = chosen
        /\ \A v \in latest : Radix(v) = chosen[v]

(* The tree always comes to show the settings that are stored, unless more *)
(* changes are on their way, even if they change while getChildren()       *)
(* awaits its variables (sidebar.ts:228-229, 273-278, 293-297).            *)
TreeConverges ==
    []<>(updates # <<>> \/ tree = Rendered(ShownChildren(config.watchList)))
=============================================================================
