-------------------------------- MODULE Forms --------------------------------
(***************************************************************************)
(* Forms of angular.js: what the user types goes through parsers to the    *)
(* model, what the page puts into the model goes through formatters to the *)
(* inputs, and both say on their way what is wrong; a form gathers what is *)
(* wrong with its controls and forms.  Here a form f holds a text t, a     *)
(* check box b and a form g, which holds a number n and two radio buttons, *)
(* r1 and r2, of one name and one model.                                   *)
(***************************************************************************)
EXTENDS Integers, Sequences, FiniteSets, SequencesExt

CONSTANTS MaxActs   \* what users and pages do

VARIABLES controls,  \* NgModelControllers
          forms,     \* FormControllers
          model,     \* values on the scope
          required,  \* attr.required of t and n
          formActs

foVars == <<controls, forms, model, required, formActs>>

Controls == {"t", "b", "n", "r1", "r2"}
Forms == {"f", "g"}
Radios == {"r1", "r2"}
Parent == [m \in Controls \cup Forms |->
             CASE m = "f" -> "none" [] m \in {"t", "b", "g"} -> "f" [] OTHER -> "g"]
ModelOf == [c \in Controls |-> IF c \in Radios THEN "r" ELSE c]
Keys == {"required", "minlength", "number", "min"}

\* Values: undefined, null, texts, check marks and numbers
Undefined == "undefined"
Numeric == [text \in {"0", "5"} |-> "#" \o text]
ModelValues == [t |-> {Undefined, "", "a", "ab"}, b |-> {Undefined, "T", "F"},
                n |-> {Undefined, "a", "#0", "#5"}, r |-> {Undefined, "r1", "r2"}]
Typed == [t |-> {"", "a", "ab"}, b |-> {"checked", "unchecked"}, n |-> {"", "x", "0", "5"},
          r1 |-> {"r1"}, r2 |-> {"r2"}]

IsEmpty(value) == value \in {Undefined, "null", ""}

-----------------------------------------------------------------------------
(* Validity.  b holds the controllers while a handler runs. *)

\* $setValidity() of one form: the controllers after it, and whether the form around is told.
Gathers(b, form, key, isValid, control) ==
  LET queue == b.forms[form].errors[key]
      rest == SelectSeq(queue, LAMBDA c : c # control)
      count == b.forms[form].invalidCount
      Put(q, n, valid) == [b EXCEPT !.forms[form].errors[key] = q,
                                    !.forms[form].invalidCount = n,
                                    !.forms[form].valid = valid]
      Told(p) == [b |-> p, told |-> TRUE]
      NotTold(p) == [b |-> p, told |-> FALSE]
  IN IF \/ ~b.forms[form].linked
        \/ IF isValid THEN queue = <<>> ELSE control \in ToSet(queue)
     THEN NotTold(b)
     ELSE CASE isValid /\ rest # <<>> -> NotTold(Put(rest, count, b.forms[form].valid))
            [] isValid /\ rest = <<>> ->
                 Told(Put(<<>>, count - 1, count = 1 \/ b.forms[form].valid))
            [] ~isValid /\ queue # <<>> -> NotTold(Put(Append(queue, control), count, FALSE))
            [] ~isValid /\ queue = <<>> -> Told(Put(<<control>>, count + 1, FALSE))

\* What is wrong goes up, and what is no longer wrong: a form stands in one other at most.
FormValidity(b, form, key, isValid, control) ==
  LET one == Gathers(b, form, key, isValid, control)
  IN IF one.told /\ Parent[form] # "none"
     THEN Gathers(one.b, Parent[form], key, isValid, form).b ELSE one.b

\* $setValidity() of a control
SetValidity(b, c, key, isValid) ==
  IF b.controls[c].errors[key] = ~isValid THEN b
  ELSE LET count == b.controls[c].invalidCount + (IF isValid THEN -1 ELSE 1)
       IN FormValidity([b EXCEPT !.controls[c].errors[key] = ~isValid,
                                 !.controls[c].invalidCount = count,
                                 !.controls[c].valid = (count = 0)],
                       Parent[c], key, isValid, c)

\* $setDirty() of a form and of those around it
DirtyForms(b, c) == [form \in Forms |->
  IF form = Parent[c] \/ (b.forms["g"].linked /\ Parent[c] = "g")
  THEN [b.forms[form] EXCEPT !.dirty = TRUE] ELSE b.forms[form]]

-----------------------------------------------------------------------------
(* Parsers and formatters: a chain hands each value on to the next *)

\* One of them: its key, whether the value passes and what it hands on
Passes(key, value, c) ==
  CASE key = "required" -> ~(required[c] /\ IsEmpty(value))
    [] key = "minlength" -> value # "a"
    [] key = "number" -> IsEmpty(value) \/ value \in DOMAIN Numeric
    [] key = "isNumber" -> IsEmpty(value) \/ value \in {"#0", "#5"}
    [] key = "min" -> value # "#0"
    [] OTHER -> TRUE

\* A check box has marks for its two values.
Mark(value) == IF value = "T" THEN "checked" ELSE "unchecked"
Unmark(mark) == IF mark = "checked" THEN "T" ELSE "F"

HandsOn(key, value) ==
  CASE key = "number" -> (IF value \in DOMAIN Numeric THEN Numeric[value]
                          ELSE IF value = "" THEN "null" ELSE value)
    [] key = "text" -> (IF IsEmpty(value) THEN ""
                        ELSE CHOOSE text \in DOMAIN Numeric : Numeric[text] = value)
    [] key = "toMark" -> Mark(value)
    [] key = "fromMark" -> Unmark(value)
    [] OTHER -> value

KeyOf(key) == IF key = "isNumber" THEN "number" ELSE key

Link(p, key, c) ==
  LET ok == Passes(key, p.value, c)
  IN [b |-> IF KeyOf(key) \in Keys THEN SetValidity(p.b, c, KeyOf(key), ok) ELSE p.b,
      value |-> IF ok THEN HandsOn(key, p.value) ELSE Undefined]

Chain(keys, b, value, c) ==
  FoldLeft(LAMBDA p, key : Link(p, key, c), [b |-> b, value |-> value], keys)

\* $parsers, in the order they run
Parsers == [t |-> <<"required", "minlength">>, b |-> <<"fromMark">>,
            n |-> <<"required", "number", "min">>, r1 |-> <<>>, r2 |-> <<>>]

\* $formatters, which run from the last to the first
Formatters == [t |-> <<"required", "minlength">>, b |-> <<"toMark">>,
               n |-> <<"required", "isNumber", "min", "text">>, r1 |-> <<>>, r2 |-> <<>>]

-----------------------------------------------------------------------------
(* From the input to the model and back *)

\* Mutant: what the browser checked stays checked.
RenderNot(b, c) == b
\* $render(): a radio button is checked for its own value only.
Render(b, c) ==
  IF c \in Radios THEN [b EXCEPT !.controls[c].checked = (b.controls[c].view = c)] ELSE b

\* Mutant: an input that shows the value already is left as it is.
FormattedIfShown(b, c) ==
  LET value == b.model[ModelOf[c]]
      p == Chain(Formatters[c], [b EXCEPT !.controls[c].known = value], value, c)
  IN IF ~b.controls[c].linked \/ b.controls[c].known = value \/ b.controls[c].view = value THEN b
     ELSE Render([p.b EXCEPT !.controls[c].view = p.value], c)

\* ngModelWatch()
Formatted(b, c) ==
  LET value == b.model[ModelOf[c]]
      p == Chain(Formatters[c], [b EXCEPT !.controls[c].known = value], value, c)
  IN IF ~b.controls[c].linked \/ b.controls[c].known = value THEN b
     ELSE IF b.controls[c].view = p.value THEN p.b
     ELSE Render([p.b EXCEPT !.controls[c].view = p.value], c)

\* The digest calls the watch of every control.
Digest(b) == FoldLeft(Formatted, b, <<"t", "b", "n", "r1", "r2">>)

\* $setViewValue()
SetViewValue(b, c, value) ==
  LET p == Chain(Parsers[c],
                 [b EXCEPT !.controls[c].view = value, !.controls[c].dirty = TRUE,
                           !.forms = IF b.controls[c].dirty THEN @ ELSE DirtyForms(b, c)],
                 value, c)
  IN [p.b EXCEPT !.controls[c].known = p.value, !.model[ModelOf[c]] = p.value]

Now == [controls |-> controls, forms |-> forms, model |-> model]
Become(b) == controls' = b.controls /\ forms' = b.forms /\ model' = b.model

NoErrors == [key \in Keys |-> FALSE]
NewControl == [linked |-> TRUE, view |-> "NaN", known |-> "NaN", errors |-> NoErrors,
               invalidCount |-> 0, valid |-> TRUE, dirty |-> FALSE, checked |-> FALSE]
NewForm == [linked |-> TRUE, errors |-> [key \in Keys |-> <<>>], invalidCount |-> 0,
            valid |-> TRUE, dirty |-> FALSE, named |-> "none"]

-----------------------------------------------------------------------------
(* Actions *)

Act == formActs < MaxActs /\ formActs' = formActs + 1

\* An input is typed into, a box or a button clicked (the listener of the input).
Type(c, value) ==
  /\ Act /\ controls[c].linked
  /\ c \in {"t", "n"} => value # controls[c].view
  /\ LET clicked == IF c \in Radios THEN [Now EXCEPT !.controls[c].checked = TRUE] ELSE Now
     IN Become(Digest(SetViewValue(clicked, c, value)))
  /\ UNCHANGED required

SetModel(name, value) ==
  /\ Act /\ value # model[name]
  /\ Become(Digest([Now EXCEPT !.model[name] = value]))
  /\ UNCHANGED required

\* The observer of the attribute judges what the input shows, and that only.
SetRequired(c) ==
  /\ Act /\ controls[c].linked
  /\ required' = [required EXCEPT ![c] = ~@]
  /\ Become(SetValidity(Now, c, "required", ~(required'[c] /\ IsEmpty(controls[c].view))))

\* Mutant: what is wrong with a control outlives it.
ForgottenByName(b, form, control) ==
  [b EXCEPT !.forms[form].named = IF @ = control THEN "none" ELSE @]

\* $removeControl()
Forgotten(b, form, control) ==
  FoldLeft(LAMBDA a, key : FormValidity(a, form, key, TRUE, control),
           [b EXCEPT !.forms[form].named = IF @ = control THEN "none" ELSE @],
           SetToSeq(Keys))

RemoveControl(c) ==
  /\ Act /\ controls[c].linked
  /\ Become([Forgotten(Now, Parent[c], c) EXCEPT !.controls[c].linked = FALSE])
  /\ UNCHANGED required

\* A form that goes leaves the form around it, and is then deaf to its own controls.
RemoveForm ==
  /\ Act /\ forms["g"].linked
  /\ LET b == Forgotten(Now, "f", "g")
     IN Become([b EXCEPT !.forms["g"].linked = FALSE,
                         !.controls = [c \in Controls |->
                           [b.controls[c] EXCEPT !.linked = @ /\ Parent[c] # "g"]]])
  /\ UNCHANGED required

\* $addControl(): a name is given to the first control that asks for it.
Named(b, c) ==
  IF c \in Radios /\ b.forms["g"].named = "none"
  THEN [b EXCEPT !.forms["g"].named = c] ELSE b

LinkControl(c) ==
  /\ Act /\ ~controls[c].linked /\ forms[Parent[c]].linked
  /\ Become(Digest(Named([Now EXCEPT !.controls[c] = NewControl], c)))
  /\ UNCHANGED required

LinkForm ==
  /\ Act /\ ~forms["g"].linked
  /\ LET b == [Now EXCEPT !.forms["g"] = NewForm,
                          !.controls = [c \in Controls |->
                            IF Parent[c] = "g" THEN NewControl ELSE controls[c]]]
     IN Become(Digest(Named(b, "r1")))
  /\ UNCHANGED required

FoInit ==
  /\ required \in [{"t", "n"} -> BOOLEAN] /\ formActs = 0
  /\ LET b == Digest([controls |-> [c \in Controls |-> NewControl],
                      forms |-> [f |-> NewForm, g |-> [NewForm EXCEPT !.named = "r1"]],
                      model |-> [name \in DOMAIN ModelValues |-> Undefined]])
     IN controls = b.controls /\ forms = b.forms /\ model = b.model

FoNext ==
  \/ \E c \in Controls : \E value \in Typed[c] : Type(c, value)
  \/ \E name \in DOMAIN ModelValues : \E value \in ModelValues[name] : SetModel(name, value)
  \/ \E c \in {"t", "n"} : SetRequired(c)
  \/ \E c \in Controls : RemoveControl(c) \/ LinkControl(c)
  \/ RemoveForm \/ LinkForm

FoSpec == FoInit /\ [][FoNext]_foVars

-----------------------------------------------------------------------------
(* Properties *)

FoTypeOK ==
  /\ \A c \in Controls : /\ controls[c].invalidCount \in 0 .. Cardinality(Keys)
                         /\ controls[c].errors \in [Keys -> BOOLEAN]
                         /\ controls[c].checked \in BOOLEAN /\ controls[c].dirty \in BOOLEAN
  /\ \A form \in Forms : /\ forms[form].invalidCount \in 0 .. Cardinality(Keys)
                         /\ \A key \in Keys : forms[form].errors[key] \in Seq(Controls \cup Forms)
                         /\ forms[form].named \in Radios \cup {"none"}
  /\ \A name \in DOMAIN model : model[name] \in ModelValues[name] \cup {"null"}
  /\ required \in [{"t", "n"} -> BOOLEAN] /\ formActs \in 0 .. MaxActs

Fails(m, key) == IF m \in Forms THEN forms[m].errors[key] # <<>> ELSE controls[m].errors[key]
Linked(m) == IF m \in Forms THEN forms[m].linked ELSE controls[m].linked

\* A form lists, for each thing that can be wrong, the controls and forms in it
\* that are wrong so and are still there, each once; it is valid when none is,
\* and it has a name for no control that is gone.
FormsGather ==
  \A form \in {x \in Forms : Linked(x)} :
    /\ \A key \in Keys :
         /\ IsInjective(forms[form].errors[key])
         /\ ToSet(forms[form].errors[key])
              = {m \in Controls \cup Forms : Parent[m] = form /\ Linked(m) /\ Fails(m, key)}
    /\ forms[form].valid = (\A m \in Controls : Linked(m) /\ (form = "f" \/ Parent[m] = form)
                                               => controls[m].valid)
    /\ forms[form].named # "none" => Linked(forms[form].named)

Alike(v, w) == v = w \/ (IsEmpty(v) /\ IsEmpty(w))
Parsed(c) == Chain(Parsers[c], Now, controls[c].view, c).value
Shown(c) == Chain(Formatters[c], Now, controls[c].known, c).value

\* A control that is valid shows what is in the model, or the model holds what
\* was typed; one that is not shows nothing, or nothing is in the model.
ModelsShown ==
  \A c \in {x \in Controls : Linked(x)} :
    /\ controls[c].known = model[ModelOf[c]]
    /\ IF controls[c].valid
       THEN Alike(Parsed(c), controls[c].known) \/ Alike(Shown(c), controls[c].view)
       ELSE IsEmpty(controls[c].view) \/ IsEmpty(controls[c].known)

\* Whoever set it last, the radio button that is checked is the one the model names.
RadiosAgree == \A c \in Radios : Linked(c) => controls[c].checked = (model["r"] = c)

=============================================================================
