-------------------------- MODULE AccountStateTree --------------------------
(***************************************************************************)
(* The balances of one account (AssetTree) and their round trip through    *)
(* the ast column of the subpool database                                  *)
(* (doxa-subpool-database/src/convert.rs).                                 *)
(***************************************************************************)
EXTENDS AssetTree

CONSTANTS
    Amounts,        \* balances explored
    NoRow           \* no account row yet

VARIABLES
    ast,            \* [leaves, assets] of the account in memory
    row,            \* the ast column of its row, or NoRow
    loadFailed      \* whether the last load from the row returned an error

astVars == <<ast, row, loadFailed>>

Init == ast = NewAst /\ row = NoRow /\ loadFailed = FALSE

\* A balance changes, as the builder of PrivTx changes it.
InsertOrUpdateAsset(a, amount) ==
    /\ CanInsertOrUpdate(ast, a)
    /\ ast' = insert_or_update_asset(ast, a, amount)
    /\ UNCHANGED <<row, loadFailed>>

\* account_to_insert, as used for a new account and by update_account.
Save == row' = ast.assets /\ UNCHANGED <<ast, loadFailed>>

\* account_from_row; the caller gives up on an error.
Load ==
    /\ row # NoRow
    /\ LET loaded == new_from_asset_map(row)
       IN  /\ ast' = IF loaded.ok THEN loaded.ast ELSE ast
           /\ loadFailed' = ~loaded.ok
    /\ UNCHANGED row

Next ==
    \/ \E a \in Assets, amount \in Amounts : InsertOrUpdateAsset(a, amount)
    \/ Save
    \/ Load

Spec == Init /\ [][Next]_astVars

-----------------------------------------------------------------------------
(* Properties *)

\* Doc of account_from_row: restores the AST from the stored representation.
SavedAstReloads == ~loadFailed
=============================================================================
