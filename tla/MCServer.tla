-------------------------------- MODULE MCServer --------------------------------
(* Two requests at a time; three people's forms, of whom one shares its phone  *)
(* with the second and its e-mail address with the third, who gives the e-mail *)
(* address of the second for a phone; and logins by phone and by either e-mail *)
(* address, with the password of who has it.                                   *)
EXTENDS Server

Form(p, e, k) == [phone |-> p, email |-> e, pass |-> k]
ThreeForms == {Form("p1", "e1", "k1"), Form("p1", "e2", "k2"), Form("e2", "e1", "k1")}

ThreeLogins == {[account |-> a[1], pass |-> a[2]] :
                  a \in {<<"p1", "k1">>, <<"e1", "k1">>, <<"e2", "k2">>}}
===============================================================================
