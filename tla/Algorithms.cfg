SPECIFICATION Spec
PROPERTIES LikeMatchersAgree       FunctionsAgree
CHECK_DEADLOCK FALSE
