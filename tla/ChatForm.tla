------------------------------ MODULE ChatForm ------------------------------
(***************************************************************************)
(* What the home page's form lets through (chatPost, validateInterests):    *)
(* a form is a chat type, the strictness and the interests' topics, each    *)
(* with the length it has once its blanks are trimmed.                      *)
(***************************************************************************)
EXTENDS Naturals, Sequences

MaxInterests == 3
MaxLength == 25

\* The first interest that is too short or too long is what is complained of.
InterestOK(interest) == interest.length \in 1..MaxLength

Valid(form) ==
  /\ form.chatType \in {"video", "text"}
  /\ form.isStrict => form.interests # <<>>
  /\ Len(form.interests) <= MaxInterests
  /\ \A i \in 1..Len(form.interests) : InterestOK(form.interests[i])

\* The interests of the client that is made of it.
TopicsOf(form) == {form.interests[i].topic : i \in 1..Len(form.interests)}

=============================================================================
