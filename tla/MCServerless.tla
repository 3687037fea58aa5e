---------------------------- MODULE MCServerless ----------------------------
(* Two frames that fit the guest's buffer and do not, five guests, and a    *)
(* stream of five items in windows of two that slide by two.                *)
EXTENDS Serverless

CONSTANTS w1, w2, d1, d2, tg

MCWLen == [f \in WFrames |-> IF f = w1 THEN 1 ELSE 3]

Exports == {"observe", "wanted", "init", "handler", "alloc"}
Ok == [observe |-> "ok", wanted |-> "ok", init |-> "ok", handler |-> "ok"]
Guest == [loads |-> TRUE, exports |-> Exports, ends |-> Ok, initCode |-> 0,
          tags |-> {1}, target |-> tg]

MCGuests ==
  { Guest,
    [Guest EXCEPT !.ends.handler = "exit0", !.exports = @ \ {"init"}],
    [Guest EXCEPT !.exports = {"observe", "wanted"}],
    [Guest EXCEPT !.exports = @ \ {"alloc"}],
    [Guest EXCEPT !.ends.init = "exit0"],
    [Guest EXCEPT !.ends.init = "trap"],
    [Guest EXCEPT !.ends.observe = "exit1"],
    [Guest EXCEPT !.initCode = 1] }

MCMaxItems == [count |-> 5, time |-> 3, default |-> 3, stdout |-> 4]

MCFiles == { {"app.go"}, {"app.go", "sfn.wasm"}, {"sfn.yomo", "app.ts", "app.txt"}, {} }

MCArgs == {"", "app.ts", "app.txt"}
=============================================================================
