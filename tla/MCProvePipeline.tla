-------------------------- MODULE MCProvePipeline --------------------------
(* Requests for TLC: two good ones, and one of them with each single fault. *)
EXTENDS ProvePipeline

CONSTANTS google, kakao, app1, app2, alice, bob, op1, op2, t1, t2, key1

Id(a, i, s) == [aud |-> a, iss |-> i, sub |-> s]
One == Id(app1, google, alice)
Two == Id(app2, kakao, bob)
Three == Id(app1, google, bob)

Cred(id, op, random, exp) ==
    [id |-> id, key |-> key1, nonce |-> <<op, random>>, exp |-> exp,
     decodes |-> TRUE, digits |-> TRUE, fits |-> TRUE, spans |-> TRUE,
     signed |-> TRUE]

Registered == [j \in Slots |-> IF j = 1 THEN Two ELSE IF j = 2 THEN Three ELSE One]
Tree == {<<google, key1>>, <<kakao, key1>>}

Good == [creds |-> <<Cred(One, op1, 1, t1), Cred(Two, op1, 1, t2), Cred(Three, op1, 1, t1)>>,
         random |-> 1, op |-> op1, anchor |-> Registered, root |-> Tree]
Other == [creds |-> <<Cred(Two, op2, 2, t1), Cred(Three, op2, 2, t1), Cred(One, op2, 2, t2)>>,
          random |-> 2, op |-> op2, anchor |-> Registered, root |-> Tree]

MCRequests ==
    {Good, Other}
    \cup {[Good EXCEPT !.creds = <<@[2], @[1], @[3]>>],
          [Good EXCEPT !.creds = <<@[1], @[2]>>],
          [Good EXCEPT !.random = 2],
          [Good EXCEPT !.random = 0, !.creds = [i \in 1..K |-> [@[i] EXCEPT !.nonce = <<op1, 0>>]]],
          [Good EXCEPT !.op = op2],
          [Good EXCEPT !.root = {<<google, key1>>}]}
    \cup UNION {{[Good EXCEPT !.creds[i].decodes = FALSE], [Good EXCEPT !.creds[i].digits = FALSE],
                 [Good EXCEPT !.creds[i].fits = FALSE], [Good EXCEPT !.creds[i].spans = FALSE],
                 [Good EXCEPT !.creds[i].signed = FALSE], [Good EXCEPT !.creds[i].id = Two]} : i \in 1..K}
=============================================================================
