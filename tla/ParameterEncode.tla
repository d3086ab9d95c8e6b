---------------------------- MODULE ParameterEncode ----------------------------
(***************************************************************************)
(* The encoder of parameters (oasvalidator/parameter): a value is          *)
(* flattened into items, each with the path of its keys and its text, and  *)
(* the items are written as the style of the parameter asks.               *)
(*                                                                         *)
(* Names and values are escaped when they are written and unescaped before *)
(* they are read, which leaves every text as it was; separators are not    *)
(* escaped.  The texts here are the unescaped ones.                        *)
(***************************************************************************)
EXTENDS SchemaValidation

CONSTANT
  Flattened(_, _, _)  \* EvaluateParameterValue, where it is applied to a child

(* A selector of a path: the key of an object or the index of an array.     *)
ParamKey(text) == <<"key", text>>
ParamIndex(i) == <<"index", i>>
IsParamIndex(selector) == selector[1] = "index"
SelectorText(selector) ==
  IF IsParamIndex(selector) THEN <<ToString(selector[2])>> ELSE selector[2]

Item(keys, value) == [keys |-> keys, value |-> value]

TextOf(table, content) == CHOOSE text \in DOMAIN table : table[text] = content

ScalarKinds == {"null", "bool", "str", "int", "num"}

(* goutils.FormatScalar; a null is the text "null". *)
FormatScalar(v) ==
  CASE Kind(v) = "null" -> NullText
    [] Kind(v) = "str" -> Content(v)
    [] Kind(v) = "bool" -> TextOf(AsBoolean, Content(v))
    [] Kind(v) = "int" -> TextOf(AsInteger, Content(v))
    [] Kind(v) = "num" -> TextOf(AsNumber, Content(v))

-----------------------------------------------------------------------------
(* The slice of the keys grows by doubling, so the one of three keys has    *)
(* room for a fourth: the children below it share that place, and each one  *)
(* writes its own key there.  Values nest at most five deep here; the next  *)
(* shared place is the sixth.                                               *)
MaxDepth == 5
HasRoom(length) == length = 3

(* A mutant: the slice of one key has room for a second as well. *)
SharedPlace_Second(items, keys, selector) ==
  [i \in DOMAIN items |->
     IF Len(keys) \in {1, 3} /\ Len(items[i].keys) = Len(keys) + 1
       THEN [items[i] EXCEPT !.keys[Len(keys) + 1] = selector] ELSE items[i]]

(* What append(keys, selector) makes of the items made from keys before.    *)
SharedPlace(items, keys, selector) ==
  [i \in DOMAIN items |->
     IF HasRoom(Len(keys)) /\ Len(items[i].keys) = Len(keys) + 1
       THEN [items[i] EXCEPT !.keys[Len(keys) + 1] = selector] ELSE items[i]]

(* The children of a value; a map is read in an order of the runtime's      *)
(* choice, here one of its keys.                                            *)
Children(v, order) ==
  IF Kind(v) = "arr"
    THEN [i \in DOMAIN Content(v) |-> <<ParamIndex(i - 1), Content(v)[i]>>]
    ELSE LET names == SelectSeq(order, LAMBDA k : k \in DOMAIN Content(v))
         IN [i \in DOMAIN names |-> <<ParamKey(names[i]), Content(v)[names[i]]>>]

(* Nulls and empty texts are left out, and so is the text "null".  The      *)
(* items of a slice of strings forget the path they are at.                 *)
EvaluateParameterValue(v, keys, order) ==
  IF Kind(v) \in ScalarKinds THEN
    LET text == FormatScalar(v)
    IN IF text \in {<<>>, NullText} THEN <<>> ELSE <<Item(keys, text)>>
  ELSE IF Kind(v) = "strs" THEN
    LET all == [i \in DOMAIN Content(v) |-> Item(<<ParamIndex(i - 1)>>, Content(v)[i])]
    IN SelectSeq(all, LAMBDA item : item.value # <<>>)
  ELSE
    FoldLeft(LAMBDA items, child :
               SharedPlace(items, keys, child[1])
                 \o Flattened(child[2], Append(keys, child[1]), order),
             <<>>, Children(v, order))

IsNested(item) ==
  Len(item.keys) > 1 \/ (Len(item.keys) = 1 /\ ~IsParamIndex(item.keys[1]))

-----------------------------------------------------------------------------
Brackets(text) == <<"[">> \o text \o <<"]">>

(* The last index is not written, or as "[]" for a deep object. *)
Format(keys, root, deepObject) ==
  LET Part(i) ==
        IF i = Len(keys) /\ IsParamIndex(keys[i])
          THEN IF deepObject THEN Brackets(<<>>) ELSE <<>>
        ELSE IF i = 1 /\ root = <<>> THEN SelectorText(keys[i])
        ELSE Brackets(SelectorText(keys[i]))
  IN root \o FlattenSeq([i \in DOMAIN keys |-> Part(i)])

(* Values by key: a function from texts to sequences of texts.              *)
NoValues == [key \in {} |-> <<>>]

Add(values, key, value) ==
  Over([k \in {key} |-> Append(IF key \in DOMAIN values THEN values[key] ELSE <<>>, value)], values)

Build(items) ==
  FoldLeft(LAMBDA values, item : Add(values, Format(item.keys, <<>>, FALSE), item.value),
           NoValues, items)

Joined(texts, separator) ==
  FlattenSeq([i \in DOMAIN texts |-> IF i = 1 THEN texts[i] ELSE separator \o texts[i]])

(* Sorted by key: the empty one is first, the others are told apart by none *)
(* of the readers.                                                          *)
SortedKeys(built) ==
  LET named == SetToSeq(DOMAIN built \ {<<>>})
  IN IF <<>> \in DOMAIN built THEN <<(<<>>)>> \o named ELSE named

buildParamDelimitedStyleNonExplode(built, separator, assign) ==
  LET keys == SortedKeys(built)
      Entry(key) == (IF key = <<>> THEN <<>> ELSE key \o assign) \o Joined(built[key], separator)
  IN Joined([i \in DOMAIN keys |-> Entry(keys[i])], separator)

Delimited(items, separator, assign) ==
  buildParamDelimitedStyleNonExplode(Build(items), separator, assign)

encodeParamWithSimpleStyle(items, explode) ==
  Delimited(items, <<",">>, IF explode THEN <<"=">> ELSE <<",">>)

-----------------------------------------------------------------------------
(* A parameter: style and explode may be left open.  Which of the two       *)
(* defaults of explode applies depends on where the parameter is.           *)
Style(def) ==
  IF def.style # "" THEN def.style
  ELSE IF def.in \in {"path", "header"} THEN "simple" ELSE "form"

Explode(def) ==
  IF def.in \in {"path", "header"} THEN TRUE \in def.explode ELSE FALSE \notin def.explode

encodeParamMatrixExplode(name, items) ==
  LET Key(item) == IF IsNested(item) THEN Format(item.keys, <<>>, FALSE) ELSE name
  IN FlattenSeq([i \in DOMAIN items |-> <<";">> \o Key(items[i]) \o <<"=">> \o items[i].value])

EncodePathValue(def, v, order) ==
  LET items == EvaluateParameterValue(v, <<>>, order)
  IN CASE Style(def) = "label" ->
            <<".">> \o (IF Explode(def) THEN Delimited(items, <<".">>, <<"=">>)
                        ELSE Delimited(items, <<",">>, <<",">>))
       [] Style(def) = "matrix" /\ Explode(def) /\ items # <<>> ->
            encodeParamMatrixExplode(def.name, items)
       [] Style(def) = "matrix" /\ ~(Explode(def) /\ items # <<>>) ->
            <<";">> \o def.name \o <<"=">> \o Delimited(items, <<",">>, <<",">>)
       [] OTHER -> encodeParamWithSimpleStyle(items, Explode(def))

EncodeHeader(def, v, order) ==
  encodeParamWithSimpleStyle(EvaluateParameterValue(v, <<>>, order), Explode(def))

Separator(style) ==
  CASE style = "spaceDelimited" -> <<" ">> [] style = "pipeDelimited" -> <<"|">>
    [] OTHER -> <<",">>

(* The items one after another, each with its key.                          *)
AddItems(query, keys, items) ==
  LET after[n \in 0..Len(items)] ==
        IF n = 0 THEN query ELSE Add(after[n - 1], keys[n], items[n].value)
  IN after[Len(items)]

(* The root key is not written for the fields of an exploded object.        *)
setParamFormExplode(query, def, items) ==
  LET Key(item) == IF IsNested(item) THEN Format(item.keys, <<>>, FALSE) ELSE def.name
  IN AddItems(query, [i \in DOMAIN items |-> Key(items[i])], items)

setParamDeepObject(query, def, items) ==
  LET Key(item) == IF item.keys = <<>> THEN def.name ELSE Format(item.keys, def.name, TRUE)
  IN AddItems(query, [i \in DOMAIN items |-> Key(items[i])], items)

(* SetQueryParam: exploded values are added to the ones of their key, a     *)
(* delimited text replaces them.                                            *)
SetQueryParam(query, def, v, order) ==
  LET items == EvaluateParameterValue(v, <<>>, order)
      separator == Separator(Style(def))
  IN IF items = <<>> THEN query
     ELSE IF Style(def) = "deepObject" THEN setParamDeepObject(query, def, items)
     ELSE IF Explode(def) THEN setParamFormExplode(query, def, items)
     ELSE Over([name \in {def.name} |-> <<Delimited(items, separator, separator)>>], query)
=============================================================================
