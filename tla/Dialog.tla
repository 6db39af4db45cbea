------------------------------- MODULE Dialog -------------------------------
(***************************************************************************)
(* The settings dialog of the terminal interface, as operators from one state *)
(* of the dialog to the next.  A tab has fields, to choose one value of        *)
(* ("enum"), several ("multi"), or to write ("text"), and lists of rules with a *)
(* heading, their entries and a row to add one.  Rows, options and lines count *)
(* from 0, as in the code.                                                   *)
(*                                                                         *)
(* Sources: client/tui/settings/settings.go, form.go and navigation.go.        *)
(***************************************************************************)
EXTENDS Navigation, SequencesExt

CONSTANTS
    Tabs,   \* [fields |-> <<[kind, name, size], ...>>, lists |-> <<name, ...>>]
    Rules,  \* rules, as the domain parses them
    Apart   \* the two lists that may not share a rule

(* The dialog: tab, cursor (a row), option (of a field), scroll (a line),       *)
(* editing (the input has the keys), height, and cur and orig, the settings:    *)
(* each name with a place of its values, -1 when unknown, a set of them, a text *)
(* or a sequence of rules.                                                   *)

ListRows(name, rules) ==
    LET row(kind, index) == [kind |-> kind, name |-> name, size |-> 0, index |-> index]
    IN  <<row("heading", -1)>> \o [i \in DOMAIN rules |-> row("entry", i)] \o <<row("add", -1)>>

Rows(d) ==
    LET tab     == Tabs[d.tab + 1]
        fields  == [i \in DOMAIN tab.fields |->
                       [kind |-> tab.fields[i].kind, name |-> tab.fields[i].name,
                        size |-> tab.fields[i].size, index |-> -1]]
        rows[i \in 0..Len(tab.lists)] ==
            IF i = 0 THEN fields
            ELSE rows[i - 1] \o ListRows(tab.lists[i], d.cur[tab.lists[i]])
    IN  rows[Len(tab.lists)]

Current(d)    == Rows(d)[d.cursor + 1]
Editable(row) == row.kind # "heading"
Bare(row)     == row.kind \in {"entry", "add"}
Selecting(d)  == Current(d).kind \in {"enum", "multi"}

-----------------------------------------------------------------------------
(* Lines.                                                                    *)

\* A row has a blank line before it unless it is bare; the selected field shows
\* all its values.
Gap(rows, i) == IF i > 1 /\ ~Bare(rows[i]) THEN 1 ELSE 0

Height(d, rows, i) ==
    IF Bare(rows[i]) \/ ~Editable(rows[i]) THEN 1
    ELSE IF i = d.cursor + 1 /\ ~d.editing THEN 1 + Maximum(rows[i].size, 1)
    ELSE 2

\* Where each row begins and ends.
Layout(d) ==
    LET rows == Rows(d)
        end[i \in 0..Len(rows)] ==
            IF i = 0 THEN 0 ELSE end[i - 1] + Gap(rows, i) + Height(d, rows, i)
    IN  [i \in 0..Len(rows) - 1 |->
            [row |-> rows[i + 1], begin |-> end[i + 1] - Height(d, rows, i + 1), end |-> end[i + 1]]]

Total(d) == Layout(d)[Len(Rows(d)) - 1].end

Between(low, value, high) == Minimum(Maximum(low, value), high)

\* The scroll that shows the option or the input, and the one that shows the row.
Clamp(d) ==
    LET layout  == Layout(d)
        at      == layout[d.cursor]
        bounded == Within(d.scroll, layout[Len(Rows(d)) - 1].end - d.height)
        option  == at.begin + 1 + d.option
    IN  [d EXCEPT !.scroll =
            CASE at.row.kind \in {"enum", "multi"} -> Between(option - d.height + 1, bounded, option)
              [] at.row.kind \notin {"enum", "multi"} /\ d.editing ->
                     Between(at.end - d.height, bounded, at.end - 1)
              [] OTHER -> bounded]

Reveal(d) ==
    LET layout  == Layout(d)
        at      == layout[d.cursor]
        bounded == Within(d.scroll, layout[Len(Rows(d)) - 1].end - d.height)
        end     == Minimum(at.end, at.begin + d.height)
    IN  [d EXCEPT !.scroll = Between(end - d.height, bounded, at.begin)]

ScrollBy(d, delta) == [d EXCEPT !.scroll = Within(d.scroll + delta, Total(d) - d.height)]

Resize(d, height) == Clamp([d EXCEPT !.height = height])

-----------------------------------------------------------------------------
(* The cursor.                                                               *)

Focus(d, cursor) ==
    LET at == [d EXCEPT !.cursor = cursor, !.option = 0]
    IN  IF Current(at).kind = "enum"
        THEN [at EXCEPT !.option = Maximum(d.cur[Current(at).name], 0)]
        ELSE at

Move(d, delta) ==
    LET rows     == Rows(d)
        editable == {i \in 0..Len(rows) - 1 : Editable(rows[i + 1])}
        count    == Cardinality(editable)
        steps    == Between(-count, delta, count)
        to       == Nth(editable, Within(Before(editable, d.cursor) + steps, count - 1))
    IN  Clamp(Reveal(IF to # d.cursor THEN Focus(d, to) ELSE d))

SwitchTab(d, tab) == Move(Focus([d EXCEPT !.tab = tab, !.scroll = 0], 0), 0)

\* The nearest row at or beyond a line that can be edited, or the last one.
Turn(d, delta) ==
    LET layout  == Layout(d)
        last    == Len(Rows(d)) - 1
        target  == layout[d.cursor].begin + delta
        fits(i) == Editable(layout[i].row) /\ IF delta > 0 THEN layout[i].begin >= target
                                                          ELSE layout[i].begin <= target
        down == {i \in d.cursor..last : fits(i) \/ i = last}
        up   == {i \in 0..d.cursor : fits(i) \/ i = 0}
    IN  IF delta > 0 THEN CHOOSE i \in down : \A j \in down : i <= j
                     ELSE CHOOSE i \in up : \A j \in up : i >= j

Navigate(d, motion) ==
    LET rows  == Rows(d)
        delta == Distance(motion, d.height, Total(d))
        turned == Focus(d, Turn(d, delta))
    IN  CASE motion.action = "move" -> Move(d, Distance(motion, d.height, Len(rows)))
          [] motion.action = "last" -> Move(Focus(d, 0), Len(rows))
          [] motion.action = "line" -> Move(Focus(d, 0), motion.count - 1)
          [] motion.action \in {"page", "half"} ->
                 Clamp(Reveal([turned EXCEPT !.scroll = @ + delta]))
          [] OTHER -> ScrollBy(d, delta)

-----------------------------------------------------------------------------
(* Values.                                                                   *)

Has(rules, rule) == \E i \in DOMAIN rules : rules[i] = rule

\* A rule of one list may not be in the other one.
Taken(d, name, rule) == name \in Apart /\ \E other \in Apart \ {name} : Has(d.cur[other], rule)

\* The settings after a rule is written at an entry or the last row, which
\* nothing written leaves or removes.
Written(d, row, rule) ==
    LET rules == d.cur[row.name]
        next  == CASE row.kind = "entry" -> [rules EXCEPT ![row.index] = rule]
                   [] row.kind = "add" /\ Has(rules, rule) -> rules
                   [] OTHER -> Append(rules, rule)
    IN  [d.cur EXCEPT ![row.name] = next]

Removed(d, row) ==
    IF row.kind = "entry" THEN [d.cur EXCEPT ![row.name] = RemoveAt(@, row.index)] ELSE d.cur

\* step: the values of a field go round, the options of a "multi" do not.
Step(d, delta) ==
    LET row  == Current(d)
        next == (d.cur[row.name] + delta + row.size) % row.size
    IN  CASE row.kind = "enum" ->
                 Clamp([d EXCEPT !.option = next, !.cur = [@ EXCEPT ![row.name] = next]])
          [] row.kind = "multi" -> Clamp([d EXCEPT !.option = Within(d.option + delta, row.size - 1)])
          [] OTHER -> d

Chosen(at, row) ==
    LET set  == at.cur[row.name]
        flip == IF at.option \in set THEN set \ {at.option} ELSE set \cup {at.option}
    IN  Clamp(CASE row.kind = "multi" -> [at EXCEPT !.cur = [@ EXCEPT ![row.name] = flip]]
                [] row.kind = "enum"  -> [at EXCEPT !.cur = [@ EXCEPT ![row.name] = at.option]]
                [] OTHER              -> [at EXCEPT !.editing = TRUE])

Activate(d) == LET at == Move(d, 0) IN Chosen(at, Current(at))

\* The ways an edit can end: escaped, or entered with a text, a rule, nothing, or
\* something that is not one (which leaves the input as it is).
Edits(d) ==
    LET row     == Current(d)
        done(c) == Move([d EXCEPT !.editing = FALSE, !.cur = c], 0)
    IN  {[d EXCEPT !.editing = FALSE], d}
        \cup (IF row.kind = "text"
              THEN {done([d.cur EXCEPT ![row.name] = text]) : text \in 0..1}
              ELSE {done(Removed(d, row))}
                   \cup {done(Written(d, row, rule)) :
                             rule \in {r \in Rules : ~Taken(d, row.name, r)}})

Delete(d) == IF Current(d).kind = "entry" THEN Move([d EXCEPT !.cur = Removed(d, Current(d))], 0) ELSE d

\* A click on a line: the row there is selected, or, when it is, activated at the
\* option there.
Clicked(d, to, selects, option) ==
    CASE to # d.cursor -> Move(Focus(d, to), 0)
      [] to = d.cursor /\ selects /\ option < 0 -> d
      [] OTHER -> Activate(IF selects THEN [d EXCEPT !.option = option] ELSE d)

Click(d, line) ==
    LET layout == Layout(d)
        hit    == {i \in DOMAIN layout :
                      /\ d.scroll + line >= layout[i].begin /\ d.scroll + line < layout[i].end
                      /\ Editable(layout[i].row)}
    IN  IF hit = {} THEN d
        ELSE CHOOSE next \in {Clicked(d, i, layout[i].row.kind \in {"enum", "multi"},
                                      d.scroll + line - layout[i].begin - 1) : i \in hit} : TRUE

-----------------------------------------------------------------------------
Open(settings, height) ==
    Focus([tab |-> 0, cursor |-> 0, option |-> 0, scroll |-> 0, editing |-> FALSE,
           height |-> height, cur |-> settings, orig |-> settings], 0)

Changed(d) == d.cur # d.orig

\* What a key or the mouse makes of it.
Next(d, motions) ==
    IF d.editing THEN Edits(d)
    ELSE {Navigate(d, motion) : motion \in motions}
         \cup {Step(d, delta) : delta \in {-1, 1}}
         \cup {SwitchTab(d, tab) : tab \in 0..Len(Tabs) - 1}
         \cup {Activate(d), Delete(d)}
         \cup {Click(d, line) : line \in 0..d.height - 1}
         \cup {ScrollBy(d, delta) : delta \in {-3, 3}}

\* What the tabs are made of: there is a field in each, every name means one
\* setting, and there is something to choose from.
Fields == UNION {{Tabs[t].fields[i] : i \in 1..Len(Tabs[t].fields)} : t \in 1..Len(Tabs)}
Lists  == UNION {{Tabs[t].lists[i] : i \in 1..Len(Tabs[t].lists)} : t \in 1..Len(Tabs)}
Names  == {field.name : field \in Fields} \cup Lists

TabsTyped ==
    /\ Len(Tabs) \in Nat \ {0}
    /\ \A t \in 1..Len(Tabs) :
          Tabs[t].fields \in Seq(Fields) \ {<<>>} /\ Tabs[t].lists \in Seq(Lists)
    /\ \A field \in Fields :
          /\ field.kind \in {"enum", "multi", "text"} /\ field.size \in Nat
          /\ field.kind # "text" => field.size > 0
          /\ field.name \notin Lists
          /\ \A other \in Fields : other.name = field.name => other = field

\* The settings of these tabs.
Typed(settings) ==
    /\ settings = [name \in Names |-> settings[name]]
    /\ \A field \in Fields :
          CASE field.kind = "enum"  -> settings[field.name] \in -1..field.size - 1
            [] field.kind = "multi" -> settings[field.name] \in SUBSET Nat
            [] OTHER                -> settings[field.name] \in Nat
    /\ \A name \in Lists : settings[name] \in Seq(Rules)

States ==
    LET settings == [Names -> Int \cup (SUBSET Nat) \cup Seq(Rules)]
    IN  [tab : Nat, cursor : Nat, option : Int, scroll : Nat, editing : BOOLEAN, height : Nat,
         cur : settings, orig : settings]

\* The row under the cursor can be edited, the option is one of its field, and
\* there is a line to show.
InBounds(d) ==
    /\ d.cursor \in 0..Len(Rows(d)) - 1 /\ Editable(Current(d))
    /\ Selecting(d) => d.option \in 0..Current(d).size - 1
    /\ d.editing => ~Selecting(d)
    /\ d.scroll \in 0..Total(d) - 1
=============================================================================
