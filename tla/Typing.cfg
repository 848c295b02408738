SPECIFICATION Spec
CONSTANT Units <- MCUnits
CONSTANT MaxDepth = 12
CONSTANT IsType <- MCIsType
CONSTANT IsExpr <- MCIsExpr
CONSTANT IsStmts <- MCIsStmts
CONSTANT PushArgs <- MCPushArgs
CONSTANT Whnf <- MCWhnf
CONSTANT TypeEq <- MCTypeEq
CONSTANT infer_expr <- MCinfer_expr
CONSTANT is_lvalue <- MCis_lvalue
CONSTANT Elaborate <- MCElaborate
CONSTANT elab_from <- MCelab_from
CONSTANT elab_args <- MCelab_args
CONSTANT Visit <- MCVisit
CONSTANT check_args <- MCcheck_args
CONSTANT emit_type <- MCemit_type
CONSTANT emit_type_default <- MCemit_type_default
CONSTANT Text <- MCText
CONSTANT extract_base_ident <- MCextract_base_ident
CONSTANT subst_this <- MCsubst_this
CONSTANT emit_type_slprop <- MCemit_type_slprop
CONSTANT FieldsSlprop <- MCFieldsSlprop
CONSTANT check_pure_type <- MCcheck_pure_type
CONSTANT PushStmts <- MCPushStmts
CONSTANT emit_pure_body <- MCemit_pure_body
CONSTANT Unfolded <- MCUnfolded
CONSTANT Owned <- MCOwned
CONSTANT EnvOf <- MCEnvOf
CONSTANT Without <- MCWithout
CONSTANT StmtsIn <- MCStmtsIn
CONSTANT TypesIn <- MCTypesIn
CONSTANT ExprsIn <- MCExprsIn
CONSTANT Matches <- MCMatches
CONSTANT Uncast <- MCUncast
CONSTANT Lifted <- MCLifted
CONSTANT LiftedAll <- MCLiftedAll
CONSTANT SameCode <- MCSameCode
CONSTANT elab <- MCelab
INVARIANT ElabSatisfiesCheck
INVARIANT ElabIsIdempotent
INVARIANT CodeIsKept
INVARIANT PointersAreNotCast
INVARIANT KindsAreSettled
INVARIANT NamesAreDefinedFirst
INVARIANT PredicatesFit
INVARIANT BindersAreDistinct
INVARIANT OwnershipIsThatOfTheTypes
INVARIANT MemoryIsGivenBack
CHECK_DEADLOCK FALSE
