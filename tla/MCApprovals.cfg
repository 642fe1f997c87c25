CONSTANTS
  Commands = {c1}
  Sockets = {s1, s2}
  Actions = {a1, a2}
  MaxRuns = 2
  Lenient = {push}
  Rules = {push, private, purchase, domain}
  NoSession = {purchase}
  DomainRule = domain
  RuleOf <- MCRuleOf
  NoRule = NoRule
  Hosts = {h1}
  HostOf <- MCHostOf
  NoHost = NoHost
  push = push
  private = private
  purchase = purchase
  domain = domain
  c1 = c1
  a2 = a2
  s1 = s1
  s2 = s2
  a1 = a1
  h1 = h1
SPECIFICATION Spec
SYMMETRY Symmetry
INVARIANTS
  CardsHaveUse
PROPERTIES
  NeedsTheHuman
  LateAnswersDeny
CHECK_DEADLOCK FALSE
