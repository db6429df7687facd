----------------------------- MODULE TaskMessage -----------------------------
(***************************************************************************)
(* A record of the task topic, VisualTaskMessage.from_payload that reads   *)
(* it, and the reading handle_invalid_message (app/main.py) does by itself *)
(* when from_payload refuses it.                                           *)
(*                                                                         *)
(* A JSON value is a record whose field "is" tells as much of it as the    *)
(* code looks at: "null" (also a missing key), "empty" (the empty string), *)
(* "zero" (any other value that Python takes for false), "blank" (spaces), *)
(* "number" (any other value that is no string), and for strings what they *)
(* are good for.  A field with aliases is the tuple of their values, in    *)
(* the order from_payload looks at them.                                   *)
(***************************************************************************)
EXTENDS Deployment, Naturals, Sequences

CONSTANT Tasks      \* task ids, as upstream writes them

Null == [is |-> "null"]
Odd == [is : {"null", "empty", "zero", "blank", "number"}]

\* The string of task t, with spaces around it or without.
Text(t, padded) == [is |-> "text", task |-> t, padded |-> padded]
Plain(t) == Text(t, FALSE)
IdValues == Odd \cup {Text(t, padded) : t \in Tasks, padded \in BOOLEAN}

\* "bareUrl" has no host and "otherScheme" is neither http nor a path; "noFile"
\* is a path where validate_video_source will find no file it can read.
Sources == [is : {"url", "path", "noFile"}]
VideoValues == Odd \cup Sources \cup [is : {"bareUrl", "otherScheme"}]

Objects ==
  [is : {"object"},
   ids : IdValues \X IdValues \X IdValues,
   teacher : VideoValues \X VideoValues \X VideoValues \X VideoValues,
   student : VideoValues \X VideoValues \X VideoValues \X VideoValues,
   slides : VideoValues \X VideoValues \X VideoValues \X VideoValues]

\* "other" is JSON but no object, "undecodable" makes json.loads raise.
Payloads == Objects \cup [is : {"other", "undecodable"}]

\* The first of a field's values that is of none of the kinds, or null.
FirstBut(kinds, values) ==
  LET left == {i \in DOMAIN values : values[i].is \notin kinds}
  IN  IF left = {} THEN Null ELSE values[CHOOSE i \in left : \A j \in left : i <= j]

\* What Python takes for false.
Falsy == {"null", "empty", "zero"}

Present(v) == v.is \notin {"null", "empty"}

\* _first_present.
FirstPresent(values) == FirstBut({"null", "empty"}, values)

\* _require_video_path accepts v.
Usable(v) == v.is \in {"url", "path", "noFile"}

-----------------------------------------------------------------------------
(* from_payload                                                            *)

\* It returns a message.
IsTask(payload) ==
  /\ payload.is = "object"
  /\ FirstPresent(payload.ids).is = "text"
  /\ Usable(FirstPresent(payload.teacher))
  /\ Usable(FirstPresent(payload.student))
  /\ Present(FirstPresent(payload.slides)) => Usable(FirstPresent(payload.slides))

\* The message: task_id is stripped, a missing slides video is None.
TaskOf(payload) == FirstPresent(payload.ids).task
VideoOf(payload, v) ==
  FirstPresent(CASE v = "teacher" -> payload.teacher
                 [] v = "student" -> payload.student
                 [] v = "slides" -> payload.slides).is

\* It raises InvalidTaskMessage.
IsInvalid(payload) == payload.is \in {"object", "other"} /\ ~IsTask(payload)

-----------------------------------------------------------------------------
(* handle_invalid_message                                                  *)

\* The task id it marks failed, str() of it and not stripped, or null: the
\* first of the aliases that Python takes for true.
InvalidRow(payload) == IF payload.is = "object" THEN FirstBut(Falsy, payload.ids) ELSE Null

=============================================================================
