-------------------------------- MODULE Phone --------------------------------
(* RustyPhone (desktop-metal app.rs): a dialler with the last calls, messages *)
(* with a canned reply, and the verification of a number by a code.  No call  *)
(* leaves the machine: a call's states follow each other by the clock, and    *)
(* how many of its ticks lie between them is left open.                       *)
EXTENDS Integers, Sequences, SequencesExt

CONSTANTS Digits,
          NUMBER,   \* digits of a number (31)
          RECENT,   \* calls that are remembered (8)
          SHORT,    \* digits that are remembered of each (20)
          VERIFY,   \* digits of a number that is verified (15)
          LEAST,    \* with no more than these it is not (4)
          Codes,    \* the codes that gen_code can come up with, all of one length (6)
          MSGS,     \* messages of the thread (24)
          SEEDED,   \* messages it starts with (3)
          MaxKeys   \* bound: keys, clicks and ticks

VARIABLES tab,
          number, call,         \* call_state
          recent, count,        \* the ring of recent calls and recent_count
          verify, vlen,         \* verify_state, verify_number_len
          code, sent,           \* verify_code_input, verify_code_sent
          registered,
          msgs,                 \* msg_count
          compose, rcs, typing, \* peer_typing
          due,                  \* reply_at is set
          dialled,              \* every number that was called
          keys

dialler == <<number, call, recent, count, dialled>>
account == <<verify, vlen, code, sent, registered>>
chat == <<msgs, compose, rcs, typing, due>>
vars == <<tab, dialler, account, chat, keys>>

None == <<>>
Tabs == <<"Dialer", "Recent", "Messages", "Account">>
CodeLen == Len(CHOOSE c \in Codes : TRUE)

Init == /\ tab = "Dialer" /\ number = None /\ call = "Idle"
        /\ recent = [i \in 0..(RECENT - 1) |-> None] /\ count = 0 /\ dialled = None
        /\ verify = "Idle" /\ vlen = 0 /\ code = None /\ sent = None /\ registered = FALSE
        /\ msgs = SEEDED /\ compose = 0 /\ rcs = TRUE /\ typing = FALSE /\ due = FALSE
        /\ keys = 0

Event == keys < MaxKeys /\ keys' = keys + 1
On(t) == Event /\ tab = t

SwitchTab == /\ Event /\ tab' \in Range(Tabs)
             /\ UNCHANGED <<dialler, account, chat>>

------------------------------------------------------------------------------
push_digit(d) == number' = IF Len(number) < NUMBER THEN Append(number, d) ELSE number

Digit(d) == /\ On("Dialer") /\ push_digit(d)
            /\ UNCHANGED <<tab, call, recent, count, dialled, account, chat>>
Erase == /\ On("Dialer") /\ number # None /\ number' = Front(number)
         /\ UNCHANGED <<tab, call, recent, count, dialled, account, chat>>
Clear == /\ On("Dialer") /\ number' = None
         /\ UNCHANGED <<tab, call, recent, count, dialled, account, chat>>

Kept(n) == SubSeq(n, 1, IF Len(n) < SHORT THEN Len(n) ELSE SHORT)
dial == /\ number # None
        /\ call' = "Dialing"
        /\ recent' = [recent EXCEPT ![count % RECENT] = Kept(number)]
        /\ count' = count + 1
        /\ dialled' = Append(dialled, number)
end_call == call' = "Idle" /\ UNCHANGED <<recent, count, dialled>>

\* Enter on the keyboard, or the round button.
CallOrEnd == /\ On("Dialer")
             /\ IF call = "Idle" THEN dial ELSE end_call
             /\ UNCHANGED <<tab, number, account, chat>>

\* draw_recent: row i shows the call of slot Slot(i).
Rows == 0..((IF count < RECENT THEN count ELSE RECENT) - 1)
Slot(i) == (count - 1 - i) % RECENT
Recall(i) == /\ On("Recent")
             /\ number' = recent[Slot(i)] /\ tab' = "Dialer"
             /\ UNCHANGED <<call, recent, count, dialled, account, chat>>

------------------------------------------------------------------------------
\* Enter and the buttons of the account do nearly the same: only a click
\* forgets the code that was typed for an earlier one.
EnterAccount(clicked) ==
    /\ On("Account")
    /\ CASE verify \in {"Idle", "Failed"} ->
              verify' = "EnterNumber" /\ vlen' = 0 /\ UNCHANGED <<code, sent, registered>>
         [] verify = "EnterNumber" /\ vlen > LEAST ->
              /\ verify' = "EnterCode" /\ sent' \in Codes
              /\ code' = (IF clicked THEN None ELSE code)
              /\ UNCHANGED <<vlen, registered>>
         [] verify = "EnterCode" ->
              /\ verify' = (IF code = sent THEN "Verified" ELSE "Failed")
              /\ registered' = (registered \/ code = sent)
              /\ UNCHANGED <<vlen, code, sent>>
         [] OTHER -> UNCHANGED account
    /\ UNCHANGED <<tab, dialler, chat>>

DigitAccount(d) ==
    /\ On("Account")
    /\ CASE verify = "EnterNumber" -> /\ vlen' = (IF vlen < VERIFY THEN vlen + 1 ELSE vlen)
                                      /\ UNCHANGED <<number, code>>
         [] verify = "EnterCode" -> /\ code' = (IF Len(code) < CodeLen THEN Append(code, d) ELSE code)
                                    /\ UNCHANGED <<number, vlen>>
         [] OTHER -> push_digit(d) /\ UNCHANGED <<vlen, code>>
    /\ UNCHANGED <<tab, call, recent, count, dialled, verify, sent, registered, chat>>

EraseAccount ==
    /\ On("Account")
    /\ \/ verify = "EnterNumber" /\ vlen > 0 /\ vlen' = vlen - 1 /\ UNCHANGED code
       \/ verify = "EnterCode" /\ code # None /\ code' = Front(code) /\ UNCHANGED vlen
    /\ UNCHANGED <<tab, dialler, verify, sent, registered, chat>>

RegisterButton == /\ On("Account") /\ registered' = ~registered
                  /\ UNCHANGED <<tab, dialler, verify, vlen, code, sent, chat>>

------------------------------------------------------------------------------
Write == /\ On("Messages") /\ compose = 0 /\ compose' = 1
         /\ UNCHANGED <<tab, dialler, account, msgs, rcs, typing, due>>
EraseMessage == /\ On("Messages") /\ compose > 0 /\ compose' = compose - 1
                /\ UNCHANGED <<tab, dialler, account, msgs, rcs, typing, due>>
Badge == /\ On("Messages") /\ rcs' = ~rcs
         /\ UNCHANGED <<tab, dialler, account, msgs, compose, typing, due>>

send_message == /\ On("Messages") /\ compose > 0 /\ msgs < MSGS
                /\ msgs' = msgs + 1 /\ compose' = 0
                /\ typing' = rcs /\ due' = TRUE
                /\ UNCHANGED <<tab, dialler, account, rcs>>

\* The clock, at most once a second: the call goes on, a reply comes.
tick == /\ Event
        /\ call' \in CASE call = "Dialing" -> {"Dialing", "Ringing"}
                       [] call = "Ringing" -> {"Ringing", "Connected"}
                       [] OTHER -> {call}
        /\ \/ UNCHANGED <<due, typing, msgs>>
           \/ /\ due /\ due' = FALSE /\ typing' = FALSE
              /\ msgs' = (IF msgs < MSGS THEN msgs + 1 ELSE msgs)
        /\ UNCHANGED <<tab, number, recent, count, dialled, account, compose, rcs>>

Next == \/ SwitchTab \/ Erase \/ Clear \/ CallOrEnd \/ EraseAccount \/ RegisterButton
        \/ Write \/ EraseMessage \/ Badge \/ send_message \/ tick
        \/ \E d \in Digits : Digit(d) \/ DigitAccount(d)
        \/ \E i \in Rows : Recall(i)
        \/ \E clicked \in BOOLEAN : EnterAccount(clicked)
Spec == Init /\ [][Next]_vars

------------------------------------------------------------------------------
TypeOK == /\ tab \in Range(Tabs) /\ Len(number) <= NUMBER /\ count \in Nat /\ vlen \in 0..VERIFY
          /\ Len(code) <= CodeLen /\ msgs \in 0..MSGS

\* The rows of "Recent Calls" are the last calls, the newest first, however
\* often the ring has gone round; and somebody who types will answer.
RecentShowsLast ==
    /\ \A i \in Rows : recent[Slot(i)] = Kept(dialled[Len(dialled) - i])
    /\ Len(dialled) > 0 => 0 \in Rows
    /\ typing => due
==============================================================================
