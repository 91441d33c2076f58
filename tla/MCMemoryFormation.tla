-------------------------- MODULE MCMemoryFormation --------------------------
(***************************************************************************)
(* Windows and proposals for TLC, chosen so that every check is met from   *)
(* both sides.  An answer is nothing, any one proposal, or any two of a    *)
(* few that can be told apart in a retry.                                  *)
(***************************************************************************)
EXTENDS MemoryFormation

MCWord == {"raj", "pune", "likes", "tea", "otp", "doctor", "ignore", "seven", "phone",
           "brief", "short"}

Said(id, role, text, status, heard) ==
  [id |-> id, role |-> role, text |-> text, status |-> status, heard |-> heard]

CompileWindow(first, second, status) ==
  [route |-> "compile",
   turns |-> <<Said("u1", "user", <<"raj", "likes", "tea", "short", "phone">>, "final", first),
               Said("a1", "assistant", <<"pune", "seven", "tea", "ignore">>, "final", Unknown),
               Said("u2", "user", <<"pune", "otp", "tea", "doctor", "tea">>, status, second)>>]

JudgeWindow(text) ==
  [route |-> "judge",
   turns |-> <<Said("t1", "user", <<"raj", "likes", "tea">>, "final", 90),
               Said("t1", "assistant", <<"pune">>, "final", Unknown),
               Said("t2", "assistant", text, "final", Unknown),
               Said("t3", "user", <<"pune", "ignore">>, "final", 90)>>]

MCWindows ==
  {CompileWindow(90, second, "final_corrected") : second \in {Unknown, 0, 60, 90}}
  \cup {CompileWindow(77, 99, "safety_override"), CompileWindow(0, 40, "final")}
  \cup {JudgeWindow(<<"doctor">>), JudgeWindow(<<"seven">>)}

Quote(turn, text) == [turn |-> turn, quote |-> text]

Plain ==
  [predicate |-> "likes", subject |-> << >>, subjectHint |-> << >>, object |-> <<"tea">>,
   target |-> << >>, targetHint |-> << >>, evidence |-> <<Quote("u1", <<"likes", "tea">>)>>,
   modality |-> "asserted", explicitness |-> "explicit", time |-> "current",
   expression |-> << >>, normalized |-> << >>, sensitivity |-> "normal",
   affectTarget |-> << >>, affectCause |-> << >>]

BothTurns == <<Quote("u1", <<"raj", "likes", "tea">>), Quote("u2", <<"pune">>)>>

\* One proposal for each way of departing from the plain one.
Varied ==
  {[Plain EXCEPT !.evidence = e] : e \in
     {<<Quote("u9", <<"tea">>)>>, <<Quote("u1", <<"tea", "raj">>)>>, <<Quote("u2", <<"tea">>)>>,
      <<Quote("u1", <<"tea">>), Quote("u1", <<"tea">>)>>, <<Quote("u1", <<"tea">>), Quote("a1", <<"tea">>)>>,
      <<Quote("a1", <<"tea">>)>>, <<Quote("u2", <<"pune", "otp", "tea">>)>>,
      <<Quote("u2", <<"tea", "doctor">>)>>, <<Quote("u1", <<"tea", "short", "phone">>)>>, BothTurns}}
  \cup {[Plain EXCEPT !.evidence = BothTurns, !.target = t, !.time = "past", !.expression = x] :
          t \in {<<"raj">>, <<"tea", "pune">>, <<"seven">>}, x \in {<< >>, <<"pune">>}}
  \cup {[Plain EXCEPT !.object = o] : o \in {<<"likes", "tea">>, <<"pune">>, <<"likes", "pune">>}}
  \cup {[Plain EXCEPT !.evidence = BothTurns, !.object = <<"tea", "pune">>]}
  \cup {[Plain EXCEPT !.subject = s, !.subjectHint = h] :
          s \in {<<"raj">>, <<"likes">>}, h \in {<< >>, <<"tea">>, <<"doctor">>}}
  \cup {[Plain EXCEPT !.normalized = n] : n \in {<<"seven">>, <<"phone">>, <<"otp">>, <<"seven", "doctor">>}}
  \cup {[Plain EXCEPT !.evidence = <<Quote("u1", <<"tea">>), Quote("a1", <<"ignore">>)>>, !.target = <<"ignore">>],
        [Plain EXCEPT !.evidence = <<Quote("u2", <<"pune", "otp">>)>>, !.object = <<"pune">>, !.target = <<"otp">>],
        [Plain EXCEPT !.predicate = "assistant_commitment", !.object = <<"ignore">>,
                      !.evidence = <<Quote("a1", <<"ignore">>)>>]}
  \cup {[Plain EXCEPT !.targetHint = <<"otp">>], [Plain EXCEPT !.expression = <<"doctor">>]}
  \cup {[Plain EXCEPT !.affectTarget = <<"tea">>, !.affectCause = c] : c \in {<<"likes">>, <<"otp">>}}
  \cup {[Plain EXCEPT !.modality = "quoted"], [Plain EXCEPT !.sensitivity = "restricted"],
        [Plain EXCEPT !.explicitness = "implied"]}
  \cup {[Plain EXCEPT !.predicate = "response_length", !.object = o,
                      !.evidence = <<Quote("u1", <<"likes", "tea", "short">>)>>] :
          o \in {<<"short">>, <<"tea">>}}
  \cup {[Plain EXCEPT !.predicate = "preferred_name", !.normalized = <<"seven">>],
        [Plain EXCEPT !.predicate = "assistant_commitment"],
        [Plain EXCEPT !.predicate = "assistant_commitment", !.evidence = <<Quote("a1", <<"tea">>)>>]}

SomeCandidate == [words : {{"tea"}, {"doctor"}}, kind : {"likes", "assistant_commitment"},
                  sensitivity : {"normal"}, explicitness : {"explicit", "assistant_only"},
                  turns : {<<"t1">>, <<"t2">>, <<"t1", "t2">>, <<"t9">>},
                  role : {"user", "mixed", "assistant"}, action : {"ADD"}]
OneCandidate == [words |-> {"tea"}, kind |-> "likes", sensitivity |-> "normal",
                 explicitness |-> "explicit", turns |-> <<"t1">>, role |-> "user", action |-> "ADD"]
Actions == {[OneCandidate EXCEPT !.action = a] : a \in {"REINFORCE", "SUPERSEDE", "EXPIRE", "NOOP"}}

Single(proposals) == {<<p>> : p \in proposals}
Double(proposals) == {<<p, q>> : p, q \in proposals}

MCAnswers ==
  [compile |-> {<< >>} \cup Single(Varied \cup {Plain})
               \cup Double({Plain, [Plain EXCEPT !.evidence = BothTurns], [Plain EXCEPT !.modality = "quoted"]}),
   judge |-> {<< >>} \cup Single(SomeCandidate \cup Actions)
             \cup Double({OneCandidate, [OneCandidate EXCEPT !.role = "mixed"],
                          [OneCandidate EXCEPT !.sensitivity = "highly_sensitive"]})]

MCKeyword == [p \in {"response_length"} |-> "short"]
MCCanonical == [p \in {"response_length"} |-> "brief"]
=============================================================================
