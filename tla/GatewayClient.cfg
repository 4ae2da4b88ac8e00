SPECIFICATION Spec
CONSTANTS
  s1 = s1
  s2 = s2
  p1 = p1
  p2 = p2
  o1 = o1
  o2 = o2
  Server <- TwoServers
  Popper <- TwoPoppers
  Opener <- OneOpener
  Dialer = d
  Alarm = alarm
  Asked <- KcpOrEncryptedFirst
  Wants <- OneOrBoth
  MaxPeer = 2
  MaxQueue = 1
INVARIANTS OwnConnection PopAwake OpensAnswer
PROPERTIES DialTells CallsReturn
CHECK_DEADLOCK FALSE
