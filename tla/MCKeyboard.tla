----------------------------- MODULE MCKeyboard -----------------------------
(* A keyboard with a plain key, a key with a two-byte character (the        *)
(* Turkish letters are UTF-8 strings in the layout) and a key without one.  *)
EXTENDS Keyboard

MCLayout ==
    [k \in Keys \X BOOLEAN |->
        CASE k[1] = "a" -> IF k[2] THEN <<"A">> ELSE <<"a">>
          [] k[1] = "g" -> IF k[2] THEN <<"hi", "G">> ELSE <<"hi", "g">>
          [] OTHER      -> <<>>]

=============================================================================
